---- MODULE Spec2Model ----
(***************************************************************************)
(* Model of the two computational parts of ai-orchestrator:                *)
(*   - SetupAgent._calculate_constraints (src/src/agents/setup_agent.py),  *)
(*     the resource-constraint planner;                                    *)
(*   - MetricsCollector (src/src/monitoring/metrics.py), the lock-guarded  *)
(*     metrics aggregator.                                                 *)
(*                                                                         *)
(* Numbers.  The snapshot reader rounds every *_gb field to two decimals   *)
(* (setup_agent.py:163-166), so a *_gb field is held here as an integer    *)
(* number of hundredths of a GB (10 GB is 1000).  Averages and rates are   *)
(* exact rationals <<numerator, denominator>> in lowest terms.             *)
(***************************************************************************)
EXTENDS Integers, Sequences, FiniteSets, TLC

\* ------------------------------------------------------------------ bounds
MaxCpu == 12
MaxRamQuarters == 48
MaxLogPrefix == 1
MaxTasks == 2
MaxCalls == 4
MaxApiCalls == 1
MaxTime == 1
NumThreads == 3
CallsPerThread == 2
MaxCostCalls == 2
MaxLibrary == 2
MaxImprovements == 2
MaxSamples == 2
MaxWrites == 2
MaxSupplied == 2
MaxFairCalls == 1

\* ----------------------------------------------------------------- helpers
Min(a, b) == IF a <= b THEN a ELSE b
Max(a, b) == IF a >= b THEN a ELSE b
Abs(a) == IF a >= 0 THEN a ELSE 0 - a

RECURSIVE GCD(_, _)
GCD(a, b) == IF b = 0 THEN a ELSE GCD(b, a % b)

\* Python's true division of a non-negative number by a positive one, as an
\* exact rational in lowest terms.
Div(n, d) == LET g == GCD(n, d) IN IF n = 0 THEN <<0, 1>> ELSE <<n \div g, d \div g>>

None == [status |-> "None"]

\* An empty dict.
EmptyMap == [k \in {} |-> 0]

\* Optional[datetime] = None
NoTime == 0 - 1

\* threading.Lock() not held
Free == 0

VARIABLES
    system_profile,    \* the SystemProfile handed to the planner
    setup_log,         \* SetupAgent.setup_log of each agent instance
    constraints,       \* what _calculate_constraints returned to each instance
    agent_metrics,     \* MetricsCollector._agent_metrics
    task_metrics,      \* MetricsCollector._task_metrics
    resource_metrics,  \* MetricsCollector._resource_metrics
    library_metrics,   \* MetricsCollector._library_metrics
    cost_metrics,      \* MetricsCollector._cost_metrics
    custom_metrics,    \* MetricsCollector._custom_metrics
    start_time,        \* MetricsCollector._start_time
    lock,              \* MetricsCollector._lock: Free or the thread holding it
    clock,             \* what datetime.utcnow() reads
    call,              \* the most recent call made on the collector: its name and agent_id
    events,            \* per agent_id, the completion events its callers have reported
    pc,                \* where each thread is inside its current call
    reg,               \* the value each thread has loaded and not yet stored
    calls_made,        \* how many calls each thread has completed
    held,              \* what the caller of the most recent read was handed
    returned,          \* the summary get_summary last returned to each thread
    probe,             \* what each probe of the snapshot reader met and answered
    metrics_collector, \* the module-level _metrics_collector: NoInstance or an instance
    constructed,       \* how many MetricsCollector objects have been constructed
    setup              \* the run of setup_project: its phase and what it has produced

planVars == <<system_profile, setup_log, constraints>>
processVars == <<metrics_collector, constructed, setup>>
otherFamilies == <<resource_metrics, library_metrics, cost_metrics, custom_metrics>>
collectorVars == <<agent_metrics, task_metrics, otherFamilies, start_time, lock>>
threadVars == <<pc, reg, calls_made>>
callerVars == <<call, events>>
readVars == <<held, returned>>
vars == <<planVars, processVars, collectorVars, clock, callerVars, threadVars, readVars, probe>>

\* The SetupAgent instances.
Instances == {1, 2}

\* The external probes of _profile_system: the three _check_command calls and
\* _detect_disk_type.
Probes == {"git", "node", "code", "disk"}
NotProbed == [outcome |-> "not probed", result |-> "none"]

\* _metrics_collector = None
NoInstance == 0

\* setup_project has not been called: nothing validated, recommended, written
\* or returned.  The list of recommendations is empty until the recommender
\* has run; the list it returns never is.
SetupNotStarted ==
    [status |-> "not started", done |-> 0, validation |-> None,
     recommendations |-> <<>>, config |-> None, report |-> None]

\* The module as imported, and no setup run yet.
ProcessInit ==
    /\ metrics_collector = NoInstance
    /\ constructed = 0
    /\ setup = SetupNotStarted

\* SetupAgent.__init__ for every instance, before any profile was taken.
AgentsInit ==
    /\ setup_log = [i \in Instances |-> <<>>]
    /\ constraints = [i \in Instances |-> None]
    /\ probe = [p \in Probes |-> NotProbed]

\* =============================================================== collector
AgentIds == {"a1", "a2"}
AgentTypes == {"coder", "reviewer"}
ExecutionTimes == {0, 2, 4, 6}
Durations == {0, 3}
TokenCounts == {100}
Costs == {5}
Scores == {0, 1}
Timestamps == 0 .. MaxTime
Threads == 1 .. NumThreads
Models == {"m1"}
LibraryTypes == {"tool", "skill", "mcp", "plugin"}
ItemIds == {"x"}
Effectiveness == {1, 2}
ImprovementTypes == {"speed", "quality"}
\* Baselines and new values whose quotient is exact in binary floating point.
Baselines == {0 - 4, 0, 4}
NewValues == {2, 5}
MetricNames == {"latency", "errors"}
MetricValues == {1, 2}
CostAmounts == {5, 7}
CostTokens == {0, 100}

\* An Optional[str] argument that was not passed (None).
NoKey == "None"

\* An Optional[float] or Optional[int] argument that was not passed (None);
\* every value that is passed is non-negative.
Omitted == 0 - 1

AgentMetrics(agent_id, agent_type) ==
    [agent_id |-> agent_id, agent_type |-> agent_type,
     tasks_completed |-> 0, tasks_failed |-> 0,
     total_execution_time |-> 0, average_execution_time |-> <<0, 1>>,
     tokens_used |-> 0, api_calls |-> 0, cost_usd |-> 0, quality_score |-> 0,
     last_active |-> NoTime, metadata |-> EmptyMap]

TaskMetrics ==
    [total_tasks |-> 0, pending_tasks |-> 0, in_progress_tasks |-> 0,
     completed_tasks |-> 0, failed_tasks |-> 0, cancelled_tasks |-> 0,
     average_duration |-> <<0, 1>>, total_duration |-> 0,
     qc_approval_rate |-> <<0, 1>>, qc_rejection_rate |-> <<0, 1>>]

ResourceMetrics ==
    [cpu_usage_percent |-> 0, memory_usage_mb |-> 0, memory_available_mb |-> 0,
     disk_usage_gb |-> 0, disk_free_gb |-> 0, cache_size_mb |-> 0,
     cache_hit_rate |-> 0, active_agents |-> 0, max_concurrent_agents |-> 0]

LibraryMetrics ==
    [tools_created |-> 0, skills_created |-> 0, mcps_created |-> 0,
     tools_used |-> 0, skills_used |-> 0, mcps_used |-> 0,
     tool_effectiveness |-> EmptyMap, skill_effectiveness |-> EmptyMap,
     mcp_effectiveness |-> EmptyMap, improvements_measured |-> <<>>]

CostMetrics ==
    [total_cost_usd |-> 0, daily_cost_usd |-> 0, monthly_cost_usd |-> 0,
     cost_by_agent |-> EmptyMap, cost_by_model |-> EmptyMap,
     tokens_used |-> 0, api_calls |-> 0, average_cost_per_task |-> <<0, 1>>]

\* No read has returned anything yet.
NothingHeld == [op |-> "none", shared |-> {}, value |-> EmptyMap]

\* MetricsCollector.__init__
CollectorInit ==
    /\ agent_metrics = EmptyMap
    /\ task_metrics = TaskMetrics
    /\ resource_metrics = ResourceMetrics
    /\ library_metrics = LibraryMetrics
    /\ cost_metrics = CostMetrics
    /\ custom_metrics = EmptyMap
    /\ clock \in Timestamps
    /\ start_time = clock
    /\ lock = Free
    /\ call = [op |-> "__init__", agent_id |-> ""]
    /\ held = NothingHeld
    /\ events = [a \in AgentIds |-> [count |-> 0, time |-> 0]]

\* No thread has called anything yet.
ThreadsInit ==
    /\ pc = [t \in Threads |-> "idle"]
    /\ reg = [t \in Threads |-> 0]
    /\ calls_made = [t \in Threads |-> 0]
    /\ returned = [t \in Threads |-> None]

\* d[key] = value on a dict.
Put(d, key, value) == [k \in DOMAIN d \cup {key} |-> IF k = key THEN value ELSE d[k]]

\* ---------------------------------------------------------- agent metrics
\* Variant that averages over the successful tasks only.
average_over_completed(metrics) ==
    IF metrics.tasks_completed > 0
    THEN Div(metrics.total_execution_time, metrics.tasks_completed)
    ELSE <<0, 1>>

\* total_execution_time / total_tasks if total_tasks > 0 else 0.0
average_execution_time(metrics) ==
    LET total_tasks == metrics.tasks_completed + metrics.tasks_failed
    IN IF total_tasks > 0 THEN Div(metrics.total_execution_time, total_tasks) ELSE <<0, 1>>

\* The body of record_agent_task_completion on the dict of agent records.
agent_task_completion(agents, agent_id, agent_type, execution_time, success, now) ==
    LET created == IF agent_id \in DOMAIN agents
                   THEN agents
                   ELSE Put(agents, agent_id, AgentMetrics(agent_id, agent_type))
        counted == IF success
                   THEN [created[agent_id] EXCEPT !.tasks_completed = @ + 1]
                   ELSE [created[agent_id] EXCEPT !.tasks_failed = @ + 1]
        timed == [counted EXCEPT !.total_execution_time = @ + execution_time]
    IN Put(created, agent_id,
           [timed EXCEPT !.average_execution_time = average_execution_time(timed),
                         !.last_active = now])

\* Variant that creates the record of an unknown agent on demand.
agent_tokens_creating(agents, agent_id, tokens, cost_usd) ==
    LET known == IF agent_id \in DOMAIN agents
                 THEN agents
                 ELSE Put(agents, agent_id, AgentMetrics(agent_id, "unknown"))
    IN [known EXCEPT ![agent_id] =
            [@ EXCEPT !.tokens_used = @ + tokens, !.cost_usd = @ + cost_usd,
                      !.api_calls = @ + 1]]

\* The body of record_agent_tokens on the dict of agent records.
agent_tokens(agents, agent_id, tokens, cost_usd) ==
    IF agent_id \in DOMAIN agents
    THEN [agents EXCEPT ![agent_id] =
              [@ EXCEPT !.tokens_used = @ + tokens, !.cost_usd = @ + cost_usd,
                        !.api_calls = @ + 1]]
    ELSE agents

\* The body of record_agent_quality_score on the dict of agent records.
agent_quality_score(agents, agent_id, score) ==
    IF agent_id \in DOMAIN agents
    THEN [agents EXCEPT ![agent_id] = [@ EXCEPT !.quality_score = score]]
    ELSE agents

\* Completion events recorded since construction or the last reset.
CompletionEvents ==
    LET RECURSIVE Sum(_)
        Sum(S) == IF S = {} THEN 0
                  ELSE LET a == CHOOSE x \in S : TRUE
                       IN agent_metrics[a].tasks_completed + agent_metrics[a].tasks_failed
                              + Sum(S \ {a})
    IN Sum(DOMAIN agent_metrics)

\* A whole call made while no other call is in progress: the lock is taken at
\* entry and released at exit of the with-block.
record_agent_task_completion(agent_id, agent_type, execution_time, success) ==
    /\ lock = Free
    /\ CompletionEvents < MaxCalls
    /\ agent_metrics' = agent_task_completion(agent_metrics, agent_id, agent_type,
                                              execution_time, success, clock)
    /\ call' = [op |-> "record_agent_task_completion", agent_id |-> agent_id,
                agent_type |-> agent_type]
    /\ events' = [events EXCEPT ![agent_id] =
                      [count |-> @.count + 1, time |-> @.time + execution_time]]
    /\ UNCHANGED <<task_metrics, otherFamilies, start_time, lock, clock, planVars,
                   processVars, threadVars, readVars, probe>>

record_agent_tokens(agent_id, tokens, cost_usd) ==
    /\ lock = Free
    /\ agent_id \in DOMAIN agent_metrics => agent_metrics[agent_id].api_calls < MaxApiCalls
    /\ agent_metrics' = agent_tokens(agent_metrics, agent_id, tokens, cost_usd)
    /\ call' = [op |-> "record_agent_tokens", agent_id |-> agent_id]
    /\ UNCHANGED <<task_metrics, otherFamilies, start_time, lock, clock, events,
                   planVars, processVars, threadVars, readVars, probe>>

record_agent_quality_score(agent_id, score) ==
    /\ lock = Free
    /\ agent_metrics' = agent_quality_score(agent_metrics, agent_id, score)
    /\ call' = [op |-> "record_agent_quality_score", agent_id |-> agent_id]
    /\ UNCHANGED <<task_metrics, otherFamilies, start_time, lock, clock, events,
                   planVars, processVars, threadVars, readVars, probe>>

\* ----------------------------------------------------------- task metrics
\* The body of record_task_created on the TaskMetrics record.
task_created(tm) ==
    [tm EXCEPT !.total_tasks = @ + 1, !.pending_tasks = @ + 1]

\* The body of record_task_started.
task_started(tm) ==
    [tm EXCEPT !.pending_tasks = @ - 1, !.in_progress_tasks = @ + 1]

\* The body of record_task_completed.
task_completed(tm, duration) ==
    LET counted == [tm EXCEPT !.in_progress_tasks = @ - 1, !.completed_tasks = @ + 1,
                              !.total_duration = @ + duration]
    IN IF counted.completed_tasks > 0
       THEN [counted EXCEPT !.average_duration =
                 Div(counted.total_duration, counted.completed_tasks)]
       ELSE counted

\* The body of record_task_failed.
task_failed(tm) ==
    [tm EXCEPT !.in_progress_tasks = @ - 1, !.failed_tasks = @ + 1]

\* Variant with two independent ifs in place of if/elif.
task_cancelled_both(tm) ==
    LET first == IF tm.in_progress_tasks > 0
                 THEN [tm EXCEPT !.in_progress_tasks = @ - 1] ELSE tm
        second == IF tm.pending_tasks > 0
                  THEN [first EXCEPT !.pending_tasks = @ - 1] ELSE first
    IN [second EXCEPT !.cancelled_tasks = @ + 1]

\* Variant that prefers the pending counter.
task_cancelled_pending_first(tm) ==
    LET taken == IF tm.pending_tasks > 0
                 THEN [tm EXCEPT !.pending_tasks = @ - 1]
                 ELSE IF tm.in_progress_tasks > 0
                      THEN [tm EXCEPT !.in_progress_tasks = @ - 1]
                      ELSE tm
    IN [taken EXCEPT !.cancelled_tasks = @ + 1]

\* The body of record_task_cancelled.
task_cancelled(tm) ==
    LET taken == IF tm.in_progress_tasks > 0
                 THEN [tm EXCEPT !.in_progress_tasks = @ - 1]
                 ELSE IF tm.pending_tasks > 0
                      THEN [tm EXCEPT !.pending_tasks = @ - 1]
                      ELSE tm
    IN [taken EXCEPT !.cancelled_tasks = @ + 1]

\* What a whole task call leaves alone.
TaskFrame ==
    UNCHANGED <<agent_metrics, otherFamilies, start_time, lock, clock, events,
                planVars, processVars, threadVars, readVars, probe>>

record_task_created ==
    /\ lock = Free
    /\ task_metrics.total_tasks < MaxTasks
    /\ task_metrics' = task_created(task_metrics)
    /\ call' = [op |-> "record_task_created", agent_id |-> ""]
    /\ TaskFrame

record_task_started ==
    /\ lock = Free
    /\ task_metrics.in_progress_tasks < MaxTasks
    /\ task_metrics' = task_started(task_metrics)
    /\ call' = [op |-> "record_task_started", agent_id |-> ""]
    /\ TaskFrame

record_task_completed(duration) ==
    /\ lock = Free
    /\ task_metrics.completed_tasks < MaxTasks
    /\ task_metrics' = task_completed(task_metrics, duration)
    /\ call' = [op |-> "record_task_completed", agent_id |-> ""]
    /\ TaskFrame

record_task_failed ==
    /\ lock = Free
    /\ task_metrics.failed_tasks < MaxTasks
    /\ task_metrics' = task_failed(task_metrics)
    /\ call' = [op |-> "record_task_failed", agent_id |-> ""]
    /\ TaskFrame

record_task_cancelled ==
    /\ lock = Free
    /\ task_metrics.cancelled_tasks < MaxTasks
    /\ task_metrics' = task_cancelled(task_metrics)
    /\ call' = [op |-> "record_task_cancelled", agent_id |-> ""]
    /\ TaskFrame

\* ------------------------------------------------------------- QC results
\* Variant that takes the rejection rate from the completed tasks.
task_qc_result_swapped(tm, approved) ==
    LET total_qc == tm.completed_tasks + tm.failed_tasks
    IN IF total_qc > 0
       THEN IF approved
            THEN [tm EXCEPT !.qc_approval_rate = Div(tm.completed_tasks, total_qc)]
            ELSE [tm EXCEPT !.qc_rejection_rate = Div(tm.completed_tasks, total_qc)]
       ELSE tm

\* The body of record_qc_result on the TaskMetrics record.
task_qc_result(tm, approved) ==
    LET total_qc == tm.completed_tasks + tm.failed_tasks
    IN IF total_qc > 0
       THEN IF approved
            THEN [tm EXCEPT !.qc_approval_rate = Div(tm.completed_tasks, total_qc)]
            ELSE [tm EXCEPT !.qc_rejection_rate = Div(tm.failed_tasks, total_qc)]
       ELSE tm

record_qc_result(approved) ==
    /\ lock = Free
    /\ task_metrics' = task_qc_result(task_metrics, approved)
    /\ call' = [op |-> "record_qc_result", agent_id |-> "", approved |-> approved]
    /\ TaskFrame

\* ------------------------------------------------------- resource metrics
\* Variant that tests the argument's truth value, so that 0 counts as omitted.
Truthy(v) == v # Omitted /\ v # 0

\* "is not None"
Supplied(v) == v # Omitted

\* The body of update_resource_metrics on the ResourceMetrics record.
resource_updated(rm, args) ==
    [cpu_usage_percent |->
         IF Supplied(args.cpu_usage) THEN args.cpu_usage ELSE rm.cpu_usage_percent,
     memory_usage_mb |->
         IF Supplied(args.memory_usage_mb) THEN args.memory_usage_mb ELSE rm.memory_usage_mb,
     memory_available_mb |->
         IF Supplied(args.memory_available_mb)
         THEN args.memory_available_mb ELSE rm.memory_available_mb,
     disk_usage_gb |->
         IF Supplied(args.disk_usage_gb) THEN args.disk_usage_gb ELSE rm.disk_usage_gb,
     disk_free_gb |->
         IF Supplied(args.disk_free_gb) THEN args.disk_free_gb ELSE rm.disk_free_gb,
     cache_size_mb |->
         IF Supplied(args.cache_size_mb) THEN args.cache_size_mb ELSE rm.cache_size_mb,
     cache_hit_rate |->
         IF Supplied(args.cache_hit_rate) THEN args.cache_hit_rate ELSE rm.cache_hit_rate,
     active_agents |->
         IF Supplied(args.active_agents) THEN args.active_agents ELSE rm.active_agents,
     max_concurrent_agents |-> rm.max_concurrent_agents]

\* A call that passes no argument at all.
NoArgs ==
    [cpu_usage |-> Omitted, memory_usage_mb |-> Omitted, memory_available_mb |-> Omitted,
     disk_usage_gb |-> Omitted, disk_free_gb |-> Omitted, cache_size_mb |-> Omitted,
     cache_hit_rate |-> Omitted, active_agents |-> Omitted]

\* The values a call can pass for each argument; 0 is a value like any other.
ResourceValues ==
    [cpu_usage |-> {0, 50}, memory_usage_mb |-> {512}, memory_available_mb |-> {1024},
     disk_usage_gb |-> {40}, disk_free_gb |-> {60}, cache_size_mb |-> {128},
     cache_hit_rate |-> {1}, active_agents |-> {3}]

\* The calls that pass at most MaxSupplied of the eight arguments.
ResourceArgs ==
    {args \in [cpu_usage : ResourceValues.cpu_usage \cup {Omitted},
                memory_usage_mb : ResourceValues.memory_usage_mb \cup {Omitted},
                memory_available_mb : ResourceValues.memory_available_mb \cup {Omitted},
                disk_usage_gb : ResourceValues.disk_usage_gb \cup {Omitted},
                disk_free_gb : ResourceValues.disk_free_gb \cup {Omitted},
                cache_size_mb : ResourceValues.cache_size_mb \cup {Omitted},
                cache_hit_rate : ResourceValues.cache_hit_rate \cup {Omitted},
                active_agents : ResourceValues.active_agents \cup {Omitted}] :
        Cardinality({f \in DOMAIN args : args[f] # Omitted}) <= MaxSupplied}

\* What a call on the resource, library, cost or custom family leaves alone
\* outside the four families.
FamilyFrame ==
    UNCHANGED <<agent_metrics, task_metrics, start_time, lock, clock, events,
                planVars, processVars, threadVars, readVars, probe>>

update_resource_metrics(args) ==
    /\ lock = Free
    /\ resource_metrics' = resource_updated(resource_metrics, args)
    /\ call' = [op |-> "update_resource_metrics", agent_id |-> "", args |-> args]
    /\ UNCHANGED <<library_metrics, cost_metrics, custom_metrics>>
    /\ FamilyFrame

\* -------------------------------------------------------- library metrics
\* Variant whose last branch is an else, so that any other type counts as mcp.
library_created_else_mcp(lm, library_type) ==
    IF library_type = "tool" THEN [lm EXCEPT !.tools_created = @ + 1]
    ELSE IF library_type = "skill" THEN [lm EXCEPT !.skills_created = @ + 1]
    ELSE [lm EXCEPT !.mcps_created = @ + 1]

\* The body of record_library_creation on the LibraryMetrics record.
library_created(lm, library_type) ==
    IF library_type = "tool" THEN [lm EXCEPT !.tools_created = @ + 1]
    ELSE IF library_type = "skill" THEN [lm EXCEPT !.skills_created = @ + 1]
    ELSE IF library_type = "mcp" THEN [lm EXCEPT !.mcps_created = @ + 1]
    ELSE lm

\* The body of record_library_usage.
library_used(lm, library_type) ==
    IF library_type = "tool" THEN [lm EXCEPT !.tools_used = @ + 1]
    ELSE IF library_type = "skill" THEN [lm EXCEPT !.skills_used = @ + 1]
    ELSE IF library_type = "mcp" THEN [lm EXCEPT !.mcps_used = @ + 1]
    ELSE lm

\* The body of record_library_effectiveness.
library_effectiveness(lm, library_type, item_id, effectiveness) ==
    IF library_type = "tool"
    THEN [lm EXCEPT !.tool_effectiveness = Put(@, item_id, effectiveness)]
    ELSE IF library_type = "skill"
    THEN [lm EXCEPT !.skill_effectiveness = Put(@, item_id, effectiveness)]
    ELSE IF library_type = "mcp"
    THEN [lm EXCEPT !.mcp_effectiveness = Put(@, item_id, effectiveness)]
    ELSE lm

\* Python's true division of an integer by a positive one, as an exact rational.
SignedDiv(n, d) ==
    IF n >= 0 THEN Div(n, d) ELSE <<0 - Div(0 - n, d)[1], Div(0 - n, d)[2]>>

\* Variant that leaves out the factor 100.
improvement_ratio(baseline, new_value) ==
    IF baseline > 0 THEN SignedDiv(new_value - baseline, baseline) ELSE <<0, 1>>

\* ((new_value - baseline) / baseline * 100) if baseline > 0 else 0
improvement_percent(baseline, new_value) ==
    IF baseline > 0 THEN SignedDiv((new_value - baseline) * 100, baseline) ELSE <<0, 1>>

\* The body of record_improvement; no metadata is passed, so 'metadata or {}'
\* is the empty dict.
library_improved(lm, improvement_type, baseline, new_value, now) ==
    [lm EXCEPT !.improvements_measured =
        Append(@, [type |-> improvement_type, baseline |-> baseline,
                   new_value |-> new_value,
                   improvement_percent |-> improvement_percent(baseline, new_value),
                   timestamp |-> now, metadata |-> EmptyMap])]

record_library_creation(library_type, item_id) ==
    /\ lock = Free
    /\ library_metrics.tools_created + library_metrics.skills_created
           + library_metrics.mcps_created < MaxLibrary
    /\ library_metrics' = library_created(library_metrics, library_type)
    /\ call' = [op |-> "record_library_creation", agent_id |-> "",
                library_type |-> library_type, item_id |-> item_id]
    /\ UNCHANGED <<resource_metrics, cost_metrics, custom_metrics>>
    /\ FamilyFrame

record_library_usage(library_type, item_id) ==
    /\ lock = Free
    /\ library_metrics.tools_used + library_metrics.skills_used
           + library_metrics.mcps_used < MaxLibrary
    /\ library_metrics' = library_used(library_metrics, library_type)
    /\ call' = [op |-> "record_library_usage", agent_id |-> "",
                library_type |-> library_type, item_id |-> item_id]
    /\ UNCHANGED <<resource_metrics, cost_metrics, custom_metrics>>
    /\ FamilyFrame

record_library_effectiveness(library_type, item_id, effectiveness) ==
    /\ lock = Free
    /\ library_metrics' =
           library_effectiveness(library_metrics, library_type, item_id, effectiveness)
    /\ call' = [op |-> "record_library_effectiveness", agent_id |-> "",
                library_type |-> library_type, item_id |-> item_id,
                effectiveness |-> effectiveness]
    /\ UNCHANGED <<resource_metrics, cost_metrics, custom_metrics>>
    /\ FamilyFrame

record_improvement(improvement_type, baseline, new_value) ==
    /\ lock = Free
    /\ Len(library_metrics.improvements_measured) < MaxImprovements
    /\ library_metrics' =
           library_improved(library_metrics, improvement_type, baseline, new_value, clock)
    /\ call' = [op |-> "record_improvement", agent_id |-> "",
                improvement_type |-> improvement_type, baseline |-> baseline,
                new_value |-> new_value]
    /\ UNCHANGED <<resource_metrics, cost_metrics, custom_metrics>>
    /\ FamilyFrame

\* ----------------------------------------------------------- cost metrics
\* "if agent_id:" and "if model:": None and the empty string are both false.
KeyGiven(key) == key # NoKey /\ key # ""

\* self._cost_metrics.cost_by_agent.get(agent_id, 0.0)
GetOr(d, key, default) == IF key \in DOMAIN d THEN d[key] ELSE default

\* Variant that averages over the API calls instead of the completed tasks.
average_cost_per_call(cm, completed_tasks) ==
    IF completed_tasks > 0 THEN Div(cm.total_cost_usd, cm.api_calls)
    ELSE cm.average_cost_per_task

\* Lines 485-489: the average is recomputed only when a task has completed.
average_cost_per_task(cm, completed_tasks) ==
    IF completed_tasks > 0 THEN Div(cm.total_cost_usd, completed_tasks)
    ELSE cm.average_cost_per_task

\* The body of record_cost on the CostMetrics record; cost_usd in cents.
cost_recorded(cm, completed_tasks, cost_usd, agent_id, model, tokens) ==
    LET totals == [cm EXCEPT !.total_cost_usd = @ + cost_usd,
                             !.tokens_used = @ + tokens,
                             !.api_calls = @ + 1]
        by_agent == IF KeyGiven(agent_id)
                    THEN [totals EXCEPT !.cost_by_agent =
                              Put(@, agent_id, GetOr(@, agent_id, 0) + cost_usd)]
                    ELSE totals
        by_model == IF KeyGiven(model)
                    THEN [by_agent EXCEPT !.cost_by_model =
                              Put(@, model, GetOr(@, model, 0) + cost_usd)]
                    ELSE by_agent
    IN [by_model EXCEPT
           !.average_cost_per_task = average_cost_per_task(by_model, completed_tasks)]

record_cost(cost_usd, agent_id, model, tokens) ==
    /\ lock = Free
    /\ cost_metrics.api_calls < MaxCostCalls
    /\ cost_metrics' = cost_recorded(cost_metrics, task_metrics.completed_tasks,
                                     cost_usd, agent_id, model, tokens)
    /\ call' = [op |-> "record_cost", agent_id |-> agent_id, model |-> model,
                cost_usd |-> cost_usd, tokens |-> tokens]
    /\ UNCHANGED <<resource_metrics, library_metrics, custom_metrics>>
    /\ FamilyFrame

\* --------------------------------------------------------- custom metrics
\* The body of record_metric on the defaultdict of series; no labels are
\* passed, so 'labels or {}' is the empty dict.
metric_recorded(cm, name, value, now) ==
    Put(cm, name,
        Append(GetOr(cm, name, <<>>),
               [value |-> value, timestamp |-> now, labels |-> EmptyMap]))

record_metric(name, value) ==
    /\ lock = Free
    /\ Len(GetOr(custom_metrics, name, <<>>)) < MaxSamples
    /\ custom_metrics' = metric_recorded(custom_metrics, name, value, clock)
    /\ call' = [op |-> "record_metric", agent_id |-> "", name |-> name, value |-> value]
    /\ UNCHANGED <<resource_metrics, library_metrics, cost_metrics>>
    /\ FamilyFrame

\* ------------------------------------------------------------------- reads
\* A read hands its caller a structure.  Some of its parts are objects the
\* collector still owns and keeps mutating (held.shared names them: "tasks",
\* "resources", "library", "costs" or an agent_id); the rest was copied when
\* the read returned (held.value).
Current(obj) ==
    CASE obj = "tasks" -> task_metrics
      [] obj = "resources" -> resource_metrics
      [] obj = "library" -> library_metrics
      [] obj = "costs" -> cost_metrics
      [] OTHER -> agent_metrics[obj]

ObjectReads ==
    {"get_agent_metrics", "get_task_metrics", "get_resource_metrics",
     "get_library_metrics", "get_cost_metrics"}

\* What the caller sees now when it looks at what it was handed.
Observed(h) ==
    CASE h.op \in ObjectReads ->
             IF h.shared = {} THEN h.value ELSE Current(CHOOSE obj \in h.shared : TRUE)
      [] h.op = "get_all_agent_metrics" ->
             [a \in DOMAIN h.value |->
                 IF a \in h.shared THEN agent_metrics[a] ELSE h.value[a]]
      [] h.op = "get_summary" ->
             [h.value EXCEPT
                 !.tasks = IF "tasks" \in h.shared THEN task_metrics ELSE @,
                 !.resources = IF "resources" \in h.shared THEN resource_metrics ELSE @,
                 !.library = IF "library" \in h.shared THEN library_metrics ELSE @,
                 !.costs = IF "costs" \in h.shared THEN cost_metrics ELSE @]
      [] OTHER -> h.value

\* reset() rebinds the four family attributes to new objects and empties the
\* agent dict: an object handed out before stays as it was and is no longer
\* the collector's.
Detached(h) == [op |-> h.op, shared |-> {}, value |-> Observed(h)]

\* Variant that leaves the start time as it was.
reset_keeping_start_time ==
    /\ lock = Free
    /\ agent_metrics' = EmptyMap
    /\ task_metrics' = TaskMetrics
    /\ resource_metrics' = ResourceMetrics
    /\ library_metrics' = LibraryMetrics
    /\ cost_metrics' = CostMetrics
    /\ custom_metrics' = EmptyMap
    /\ start_time' = start_time
    /\ call' = [op |-> "reset", agent_id |-> ""]
    /\ events' = [a \in AgentIds |-> [count |-> 0, time |-> 0]]
    /\ held' = Detached(held)
    /\ UNCHANGED <<lock, clock, planVars, processVars, threadVars, returned, probe>>

reset ==
    /\ lock = Free
    /\ agent_metrics' = EmptyMap
    /\ task_metrics' = TaskMetrics
    /\ resource_metrics' = ResourceMetrics
    /\ library_metrics' = LibraryMetrics
    /\ cost_metrics' = CostMetrics
    /\ custom_metrics' = EmptyMap
    /\ start_time' = clock
    /\ call' = [op |-> "reset", agent_id |-> ""]
    /\ events' = [a \in AgentIds |-> [count |-> 0, time |-> 0]]
    /\ held' = Detached(held)
    /\ UNCHANGED <<lock, clock, planVars, processVars, threadVars, returned, probe>>

\* get_summary()['agents']: one entry per agent record.
summary_agents == [a \in DOMAIN agent_metrics |-> agent_metrics[a]]

\* What a read leaves alone: the whole collector.
ReadFrame ==
    UNCHANGED <<collectorVars, clock, events, returned, planVars, processVars, threadVars, probe>>

\* return self._agent_metrics.get(agent_id): the record itself, or None.
get_agent_metrics(agent_id) ==
    /\ lock = Free
    /\ held' = IF agent_id \in DOMAIN agent_metrics
               THEN [op |-> "get_agent_metrics", shared |-> {agent_id}, value |-> EmptyMap]
               ELSE [op |-> "get_agent_metrics", shared |-> {}, value |-> None]
    /\ call' = [op |-> "get_agent_metrics", agent_id |-> agent_id]
    /\ ReadFrame

\* return self._agent_metrics.copy(): a new dict of the same record objects.
get_all_agent_metrics ==
    /\ lock = Free
    /\ held' = [op |-> "get_all_agent_metrics", shared |-> DOMAIN agent_metrics,
                value |-> [a \in DOMAIN agent_metrics |-> EmptyMap]]
    /\ call' = [op |-> "get_all_agent_metrics", agent_id |-> ""]
    /\ ReadFrame

\* return self._task_metrics
get_task_metrics ==
    /\ lock = Free
    /\ held' = [op |-> "get_task_metrics", shared |-> {"tasks"}, value |-> EmptyMap]
    /\ call' = [op |-> "get_task_metrics", agent_id |-> ""]
    /\ ReadFrame

\* return self._resource_metrics
get_resource_metrics ==
    /\ lock = Free
    /\ held' = [op |-> "get_resource_metrics", shared |-> {"resources"}, value |-> EmptyMap]
    /\ call' = [op |-> "get_resource_metrics", agent_id |-> ""]
    /\ ReadFrame

\* return self._library_metrics
get_library_metrics ==
    /\ lock = Free
    /\ held' = [op |-> "get_library_metrics", shared |-> {"library"}, value |-> EmptyMap]
    /\ call' = [op |-> "get_library_metrics", agent_id |-> ""]
    /\ ReadFrame

\* return self._cost_metrics
get_cost_metrics ==
    /\ lock = Free
    /\ held' = [op |-> "get_cost_metrics", shared |-> {"costs"}, value |-> EmptyMap]
    /\ call' = [op |-> "get_cost_metrics", agent_id |-> ""]
    /\ ReadFrame

\* Variant that indexes the defaultdict, which creates the missing series.
series_after_index(series, name) ==
    IF name \in DOMAIN series THEN series ELSE Put(series, name, <<>>)

\* What self._custom_metrics.get(name, []) leaves in the defaultdict: get
\* never calls the default factory, so nothing is created.
series_after_get(series, name) == series

\* return self._custom_metrics.get(name, []).copy(): a new list; its
\* MetricValue elements are never mutated once appended.
get_metric(name) ==
    /\ lock = Free
    /\ held' = [op |-> "get_metric", shared |-> {},
                value |-> IF name \in DOMAIN custom_metrics
                          THEN custom_metrics[name] ELSE <<>>]
    /\ custom_metrics' = series_after_get(custom_metrics, name)
    /\ call' = [op |-> "get_metric", agent_id |-> "", name |-> name]
    /\ UNCHANGED <<agent_metrics, task_metrics, resource_metrics, library_metrics,
                   cost_metrics, start_time, lock, clock, events, returned, planVars, processVars,
                   threadVars, probe>>

\* Variant that puts the TaskMetrics object itself into the summary.
summary_shared_tasks == {"tasks"}

\* The collector objects a summary still shares: asdict() and the two
\* comprehensions copy every dataclass, dict and list they meet.
summary_shared == {}

\* The dict get_summary builds.
summary ==
    [uptime_seconds |-> clock - start_time, timestamp |-> clock,
     agents |-> summary_agents, tasks |-> task_metrics,
     resources |-> resource_metrics, library |-> library_metrics,
     costs |-> cost_metrics, custom_metrics |-> custom_metrics]

get_summary ==
    /\ lock = Free
    /\ held' = [op |-> "get_summary", shared |-> summary_shared, value |-> summary]
    /\ call' = [op |-> "get_summary", agent_id |-> ""]
    /\ ReadFrame

\* The collector alone, before any setup agent exists.
CollectorOnlyInit ==
    /\ system_profile = None
    /\ AgentsInit
    /\ ProcessInit
    /\ CollectorInit
    /\ ThreadsInit

\* The same, constructed at time 0.
CollectorAtZeroInit ==
    /\ CollectorOnlyInit
    /\ clock = 0

TaskNext ==
    \/ record_task_created
    \/ record_task_started
    \/ \E d \in Durations : record_task_completed(d)
    \/ record_task_failed
    \/ record_task_cancelled

TaskSpec == CollectorOnlyInit /\ [][TaskNext]_vars

\* Completion events only, with every execution time.
CompletionNext ==
    \/ \E a \in AgentIds, ty \in AgentTypes, x \in ExecutionTimes, ok \in BOOLEAN :
           record_agent_task_completion(a, ty, x, ok)
    \/ reset

CompletionSpec == CollectorOnlyInit /\ [][CompletionNext]_vars

\* Every agent operation, completion events with one execution time.
AgentNext ==
    \/ \E a \in AgentIds, ty \in AgentTypes, ok \in BOOLEAN :
           record_agent_task_completion(a, ty, 2, ok)
    \/ \E a \in AgentIds, n \in TokenCounts, c \in Costs : record_agent_tokens(a, n, c)
    \/ \E a \in AgentIds, sc \in Scores : record_agent_quality_score(a, sc)
    \/ reset

AgentSpec == CollectorOnlyInit /\ [][AgentNext]_vars

\* ------------------------------------------------------ reads among writes
\* The names of the calls that write (record_* and update_*).
WriteOps ==
    {"record_agent_task_completion", "record_agent_tokens", "record_agent_quality_score",
     "record_task_created", "record_task_started", "record_task_completed",
     "record_task_failed", "record_task_cancelled", "record_qc_result",
     "update_resource_metrics", "record_library_creation", "record_library_usage",
     "record_library_effectiveness", "record_improvement", "record_cost",
     "record_metric"}

\* The names of the reads that return one object, a dict or a list.
ReadOps == ObjectReads \cup {"get_all_agent_metrics", "get_metric"}

\* The number of writes the collector's state shows since it was last empty.
Written ==
    task_metrics.total_tasks + CompletionEvents
      + (IF resource_metrics = ResourceMetrics THEN 0 ELSE 1)
      + library_metrics.tools_created + Len(library_metrics.improvements_measured)
      + cost_metrics.api_calls
      + Len(GetOr(custom_metrics, "latency", <<>>))

\* One write per family, every read, and reset, in any order.
ReadNext ==
    \/ Written < MaxWrites /\ record_task_created
    \/ Written < MaxWrites /\ record_agent_task_completion("a1", "coder", 2, TRUE)
    \/ Written < MaxWrites /\ resource_metrics = ResourceMetrics
          /\ update_resource_metrics([NoArgs EXCEPT !.cpu_usage = 5])
    \/ Written < MaxWrites /\ record_library_creation("tool", "x")
    \/ Written < MaxWrites /\ record_cost(5, NoKey, "m1", 100)
    \/ Written < MaxWrites /\ record_metric("latency", 1)
    \/ reset
    \/ \E a \in AgentIds : get_agent_metrics(a)
    \/ get_all_agent_metrics
    \/ get_task_metrics
    \/ get_resource_metrics
    \/ get_library_metrics
    \/ get_cost_metrics
    \/ \E n \in MetricNames : get_metric(n)
    \/ get_summary

ReadSpec == CollectorAtZeroInit /\ [][ReadNext]_vars

\* ------------------------------------------------------ reset among writes
\* Time passes between two calls.
Tick ==
    /\ clock < MaxTime
    /\ clock' = clock + 1
    /\ UNCHANGED <<planVars, processVars, collectorVars, callerVars, threadVars, readVars, probe>>

\* Writes to every family, the passing of time, reads of the task family, and
\* reset, in any order.
ResetNext ==
    \/ Written < MaxWrites /\ record_task_created
    \/ Written < MaxWrites /\ record_agent_task_completion("a1", "coder", 2, TRUE)
    \/ Written < MaxWrites /\ resource_metrics = ResourceMetrics
          /\ update_resource_metrics([NoArgs EXCEPT !.active_agents = 3])
    \/ Written < MaxWrites /\ record_library_creation("tool", "x")
    \/ Written < MaxWrites /\ record_improvement("speed", 4, 5)
    \/ Written < MaxWrites /\ record_cost(5, "a1", "m1", 100)
    \/ Written < MaxWrites /\ record_metric("latency", 1)
    \/ Tick
    \/ get_task_metrics
    \/ reset

ResetSpec == CollectorAtZeroInit /\ [][ResetNext]_vars

\* ------------------------------------------------- costs among completions
\* record_cost with and without each key, between task completions and resets.
CostNext ==
    \/ \E c \in CostAmounts, a \in AgentIds \cup {NoKey, ""}, m \in Models \cup {NoKey},
          n \in CostTokens :
           record_cost(c, a, m, n)
    \/ record_task_completed(3)
    \/ reset

CostSpec == CollectorOnlyInit /\ [][CostNext]_vars

\* ------------------------------------------------ QC results among outcomes
\* QC results between task creations, completions and failures.
QcNext ==
    \/ record_task_created
    \/ record_task_completed(3)
    \/ record_task_failed
    \/ \E approved \in BOOLEAN : record_qc_result(approved)
    \/ reset

QcSpec == CollectorOnlyInit /\ [][QcNext]_vars

\* --------------------------------------------------------- resource updates
\* Resource updates between task creations and resets.
ResourceNext ==
    \/ \E args \in ResourceArgs : update_resource_metrics(args)
    \/ record_task_created
    \/ reset

ResourceSpec == CollectorAtZeroInit /\ [][ResourceNext]_vars

\* ------------------------------------------------------- library records
\* Creations, usages and effectiveness scores of every kind, known or not.
LibraryNext ==
    \/ \E ty \in LibraryTypes, item \in ItemIds : record_library_creation(ty, item)
    \/ \E ty \in LibraryTypes, item \in ItemIds : record_library_usage(ty, item)
    \/ \E ty \in LibraryTypes, item \in ItemIds, e \in Effectiveness :
           record_library_effectiveness(ty, item, e)
    \/ reset

LibrarySpec == CollectorAtZeroInit /\ [][LibraryNext]_vars

\* ------------------------------------------------------ improvement log
\* Improvements with negative, zero and positive baselines.
ImprovementNext ==
    \/ \E ty \in ImprovementTypes, b \in Baselines, v \in NewValues :
           record_improvement(ty, b, v)
    \/ reset

ImprovementSpec == CollectorOnlyInit /\ [][ImprovementNext]_vars

\* ---------------------------------------------------------- custom series
\* Samples recorded into and read from both series, and resets.
MetricNext ==
    \/ \E n \in MetricNames, v \in MetricValues : record_metric(n, v)
    \/ \E n \in MetricNames : get_metric(n)
    \/ reset

MetricSpec == CollectorOnlyInit /\ [][MetricNext]_vars

\* ------------------------------------------------ record_task_created, threaded
\* Several threads call record_task_created at once.  A call is the steps the
\* interpreter can be preempted between: entering the with-block, the load and
\* the store of each "+= 1", and leaving the with-block.
ThreadFrame ==
    UNCHANGED <<agent_metrics, otherFamilies, start_time, clock, callerVars, planVars, processVars,
                held, probe>>

\* Variant of the lock that lets a thread in while another holds it.
lock_acquire_unguarded(t) == lock' = t

\* with self._lock: entry, which waits until the lock is free.
lock_acquire(t) ==
    /\ lock = Free
    /\ lock' = t

\* Variant of the exit that leaves the lock with the thread.
lock_release_kept(t) == lock' = lock

\* with self._lock: exit.
lock_release(t) == lock' = Free

\* A thread calls record_task_created().
created_call(t) ==
    /\ pc[t] = "idle"
    /\ calls_made[t] < CallsPerThread
    /\ pc' = [pc EXCEPT ![t] = "acquire"]
    /\ UNCHANGED <<task_metrics, lock, reg, calls_made, returned>>
    /\ ThreadFrame

created_acquire(t) ==
    /\ pc[t] = "acquire"
    /\ lock_acquire(t)
    /\ pc' = [pc EXCEPT ![t] = "load_total"]
    /\ UNCHANGED <<task_metrics, reg, calls_made, returned>>
    /\ ThreadFrame

\* self._task_metrics.total_tasks += 1, the load
created_load_total(t) ==
    /\ pc[t] = "load_total"
    /\ reg' = [reg EXCEPT ![t] = task_metrics.total_tasks]
    /\ pc' = [pc EXCEPT ![t] = "store_total"]
    /\ UNCHANGED <<task_metrics, lock, calls_made, returned>>
    /\ ThreadFrame

\* self._task_metrics.total_tasks += 1, the store
created_store_total(t) ==
    /\ pc[t] = "store_total"
    /\ task_metrics' = [task_metrics EXCEPT !.total_tasks = reg[t] + 1]
    /\ pc' = [pc EXCEPT ![t] = "load_pending"]
    /\ UNCHANGED <<lock, reg, calls_made, returned>>
    /\ ThreadFrame

\* self._task_metrics.pending_tasks += 1, the load
created_load_pending(t) ==
    /\ pc[t] = "load_pending"
    /\ reg' = [reg EXCEPT ![t] = task_metrics.pending_tasks]
    /\ pc' = [pc EXCEPT ![t] = "store_pending"]
    /\ UNCHANGED <<task_metrics, lock, calls_made, returned>>
    /\ ThreadFrame

\* self._task_metrics.pending_tasks += 1, the store
created_store_pending(t) ==
    /\ pc[t] = "store_pending"
    /\ task_metrics' = [task_metrics EXCEPT !.pending_tasks = reg[t] + 1]
    /\ pc' = [pc EXCEPT ![t] = "release"]
    /\ UNCHANGED <<lock, reg, calls_made, returned>>
    /\ ThreadFrame

\* The with-block ends and the call returns.
created_return(t) ==
    /\ pc[t] = "release"
    /\ lock_release(t)
    /\ pc' = [pc EXCEPT ![t] = "idle"]
    /\ calls_made' = [calls_made EXCEPT ![t] = @ + 1]
    /\ UNCHANGED <<task_metrics, reg, returned>>
    /\ ThreadFrame

ThreadedNext ==
    \E t \in Threads :
        \/ created_call(t)
        \/ created_acquire(t)
        \/ created_load_total(t)
        \/ created_store_total(t)
        \/ created_load_pending(t)
        \/ created_store_pending(t)
        \/ created_return(t)

ThreadedSpec == CollectorOnlyInit /\ [][ThreadedNext]_vars

\* -------------------------------------------- get_summary among writer threads
\* One thread reads summaries while the others write: one writer calls
\* record_task_created, the rest call
\* record_agent_task_completion("a1", "coder", 2, True).  A completion is the
\* statements of its with-block, one step each.
Readers == {1}
TaskWriters == {2}
AgentWriters == Threads \ {1, 2}

AgentThreadFrame ==
    UNCHANGED <<task_metrics, otherFamilies, start_time, clock, callerVars, planVars, processVars,
                held, probe, reg, returned>>

completion_call(t) ==
    /\ pc[t] = "idle"
    /\ calls_made[t] < CallsPerThread
    /\ pc' = [pc EXCEPT ![t] = "c_acquire"]
    /\ UNCHANGED <<agent_metrics, lock, calls_made>>
    /\ AgentThreadFrame

completion_acquire(t) ==
    /\ pc[t] = "c_acquire"
    /\ lock_acquire(t)
    /\ pc' = [pc EXCEPT ![t] = "c_create"]
    /\ UNCHANGED <<agent_metrics, calls_made>>
    /\ AgentThreadFrame

\* Variant that installs a fresh record on every event.
completion_create_always(t) ==
    /\ pc[t] = "c_create"
    /\ agent_metrics' = Put(agent_metrics, "a1", AgentMetrics("a1", "coder"))
    /\ pc' = [pc EXCEPT ![t] = "c_count"]
    /\ UNCHANGED <<lock, calls_made>>
    /\ AgentThreadFrame

\* if agent_id not in self._agent_metrics: self._agent_metrics[agent_id] = ...
completion_create(t) ==
    /\ pc[t] = "c_create"
    /\ agent_metrics' = IF "a1" \in DOMAIN agent_metrics
                        THEN agent_metrics
                        ELSE Put(agent_metrics, "a1", AgentMetrics("a1", "coder"))
    /\ pc' = [pc EXCEPT ![t] = "c_count"]
    /\ UNCHANGED <<lock, calls_made>>
    /\ AgentThreadFrame

\* metrics.tasks_completed += 1
completion_count(t) ==
    /\ pc[t] = "c_count"
    /\ agent_metrics' = [agent_metrics EXCEPT !["a1"].tasks_completed = @ + 1]
    /\ pc' = [pc EXCEPT ![t] = "c_time"]
    /\ UNCHANGED <<lock, calls_made>>
    /\ AgentThreadFrame

\* metrics.total_execution_time += execution_time
completion_time(t) ==
    /\ pc[t] = "c_time"
    /\ agent_metrics' = [agent_metrics EXCEPT !["a1"].total_execution_time = @ + 2]
    /\ pc' = [pc EXCEPT ![t] = "c_average"]
    /\ UNCHANGED <<lock, calls_made>>
    /\ AgentThreadFrame

\* metrics.average_execution_time = ...
completion_average(t) ==
    /\ pc[t] = "c_average"
    /\ agent_metrics' = [agent_metrics EXCEPT !["a1"].average_execution_time =
                             average_execution_time(agent_metrics["a1"])]
    /\ pc' = [pc EXCEPT ![t] = "c_stamp"]
    /\ UNCHANGED <<lock, calls_made>>
    /\ AgentThreadFrame

\* metrics.last_active = datetime.utcnow()
completion_stamp(t) ==
    /\ pc[t] = "c_stamp"
    /\ agent_metrics' = [agent_metrics EXCEPT !["a1"].last_active = clock]
    /\ pc' = [pc EXCEPT ![t] = "c_release"]
    /\ UNCHANGED <<lock, calls_made>>
    /\ AgentThreadFrame

\* The with-block is left and the call returns: its caller has reported one
\* more completion of "a1", of 2 seconds.
completion_return(t) ==
    /\ pc[t] = "c_release"
    /\ lock_release(t)
    /\ pc' = [pc EXCEPT ![t] = "idle"]
    /\ calls_made' = [calls_made EXCEPT ![t] = @ + 1]
    /\ events' = [events EXCEPT !["a1"] = [count |-> @.count + 1, time |-> @.time + 2]]
    /\ UNCHANGED <<agent_metrics, call>>
    /\ UNCHANGED <<task_metrics, otherFamilies, start_time, clock, planVars, processVars,
                   held, probe, reg, returned>>

ReaderFrame ==
    UNCHANGED <<agent_metrics, task_metrics, otherFamilies, start_time, clock,
                callerVars, planVars, processVars, held, probe, reg>>

\* A thread calls get_summary().
summary_call(t) ==
    /\ pc[t] = "idle"
    /\ calls_made[t] < CallsPerThread
    /\ pc' = [pc EXCEPT ![t] = "s_acquire"]
    /\ UNCHANGED <<lock, calls_made, returned>>
    /\ ReaderFrame

\* Variant of the read that enters its block without waiting for the lock.
summary_acquire_unlocked(t) ==
    /\ pc[t] = "s_acquire"
    /\ pc' = [pc EXCEPT ![t] = "s_build"]
    /\ UNCHANGED <<lock, calls_made, returned>>
    /\ ReaderFrame

summary_acquire(t) ==
    /\ pc[t] = "s_acquire"
    /\ lock_acquire(t)
    /\ pc' = [pc EXCEPT ![t] = "s_build"]
    /\ UNCHANGED <<calls_made, returned>>
    /\ ReaderFrame

\* The dict is built inside the with-block.
summary_build(t) ==
    /\ pc[t] = "s_build"
    /\ returned' = [returned EXCEPT ![t] = summary]
    /\ pc' = [pc EXCEPT ![t] = "s_release"]
    /\ UNCHANGED <<lock, calls_made>>
    /\ ReaderFrame

summary_return(t) ==
    /\ pc[t] = "s_release"
    /\ lock_release(t)
    /\ pc' = [pc EXCEPT ![t] = "idle"]
    /\ calls_made' = [calls_made EXCEPT ![t] = @ + 1]
    /\ UNCHANGED returned
    /\ ReaderFrame

SummaryNext ==
    \/ \E t \in TaskWriters :
           \/ created_call(t)
           \/ created_acquire(t)
           \/ created_load_total(t)
           \/ created_store_total(t)
           \/ created_load_pending(t)
           \/ created_store_pending(t)
           \/ created_return(t)
    \/ \E t \in AgentWriters :
           \/ completion_call(t)
           \/ completion_acquire(t)
           \/ completion_create(t)
           \/ completion_count(t)
           \/ completion_time(t)
           \/ completion_average(t)
           \/ completion_stamp(t)
           \/ completion_return(t)
    \/ \E t \in Readers :
           \/ summary_call(t)
           \/ summary_acquire(t)
           \/ summary_build(t)
           \/ summary_return(t)

SummarySpec == CollectorOnlyInit /\ [][SummaryNext]_vars

\* The steps of a call that thread t has made: from waiting for the lock to
\* returning.
Working(t) ==
    \/ created_acquire(t)
    \/ created_load_total(t)
    \/ created_store_total(t)
    \/ created_load_pending(t)
    \/ created_store_pending(t)
    \/ created_return(t)
    \/ completion_acquire(t)
    \/ completion_create(t)
    \/ completion_count(t)
    \/ completion_time(t)
    \/ completion_average(t)
    \/ completion_stamp(t)
    \/ completion_return(t)
    \/ summary_acquire(t)
    \/ summary_build(t)
    \/ summary_return(t)

\* ------------------------------------- first completions from several threads
\* The threads that report completions of "a1" concurrently.
FirstReporters == {1, 2}

\* Threads report completions of "a1" as type "coder", each at most MaxFairCalls
\* times, while whole calls of record_agent_task_completion for either agent
\* under either type, and resets, happen whenever no call holds the lock.
RecordsNext ==
    \/ \E a \in AgentIds, ty \in AgentTypes, ok \in BOOLEAN :
           record_agent_task_completion(a, ty, 2, ok)
    \/ reset
    \/ \E t \in FirstReporters :
           \/ calls_made[t] < MaxFairCalls /\ completion_call(t)
           \/ completion_acquire(t)
           \/ completion_create(t)
           \/ completion_count(t)
           \/ completion_time(t)
           \/ completion_average(t)
           \/ completion_stamp(t)
           \/ completion_return(t)

RecordsSpec == CollectorOnlyInit /\ [][RecordsNext]_vars

\* Each thread makes at most MaxFairCalls calls.
FairSummaryNext ==
    \/ \E t \in TaskWriters : calls_made[t] < MaxFairCalls /\ created_call(t)
    \/ \E t \in AgentWriters : calls_made[t] < MaxFairCalls /\ completion_call(t)
    \/ \E t \in Readers : calls_made[t] < MaxFairCalls /\ summary_call(t)
    \/ \E t \in Threads : Working(t)

\* The same threads under a scheduler that keeps running every thread that can
\* take a step.  Whether a thread calls again is up to it: calls are not forced.
FairSummarySpec ==
    /\ CollectorOnlyInit
    /\ [][FairSummaryNext]_vars
    /\ \A t \in Threads : WF_vars(Working(t))

\* ------------------------------------------------- get_metrics_collector
\* Threads call get_metrics_collector(), as every module-level convenience
\* function does first.  The function takes no lock; a thread can be preempted
\* between the test of the global, the construction, the assignment and the
\* load for the return.
AccessorFrame ==
    UNCHANGED <<planVars, setup, collectorVars, clock, callerVars, held, probe>>

accessor_call(t) ==
    /\ pc[t] = "idle"
    /\ calls_made[t] < CallsPerThread
    /\ pc' = [pc EXCEPT ![t] = "g_test"]
    /\ UNCHANGED <<metrics_collector, constructed, reg, calls_made, returned>>
    /\ AccessorFrame

\* if _metrics_collector is None:
accessor_test(t) ==
    /\ pc[t] = "g_test"
    /\ pc' = [pc EXCEPT ![t] =
                  IF metrics_collector = NoInstance THEN "g_construct" ELSE "g_return"]
    /\ UNCHANGED <<metrics_collector, constructed, reg, calls_made, returned>>
    /\ AccessorFrame

\* MetricsCollector(): a new object
accessor_construct(t) ==
    /\ pc[t] = "g_construct"
    /\ constructed' = constructed + 1
    /\ reg' = [reg EXCEPT ![t] = constructed + 1]
    /\ pc' = [pc EXCEPT ![t] = "g_assign"]
    /\ UNCHANGED <<metrics_collector, calls_made, returned>>
    /\ AccessorFrame

\* _metrics_collector = <the new object>
accessor_assign(t) ==
    /\ pc[t] = "g_assign"
    /\ metrics_collector' = reg[t]
    /\ pc' = [pc EXCEPT ![t] = "g_return"]
    /\ UNCHANGED <<constructed, reg, calls_made, returned>>
    /\ AccessorFrame

\* return _metrics_collector
accessor_return(t) ==
    /\ pc[t] = "g_return"
    /\ returned' = [returned EXCEPT ![t] = [instance |-> metrics_collector]]
    /\ pc' = [pc EXCEPT ![t] = "idle"]
    /\ calls_made' = [calls_made EXCEPT ![t] = @ + 1]
    /\ UNCHANGED <<metrics_collector, constructed, reg>>
    /\ AccessorFrame

AccessorNext ==
    \E t \in Threads :
        \/ accessor_call(t)
        \/ accessor_test(t)
        \/ accessor_construct(t)
        \/ accessor_assign(t)
        \/ accessor_return(t)

AccessorSpec == CollectorOnlyInit /\ [][AccessorNext]_vars

\* ================================================================== probes
\* What subprocess.run can meet when _check_command runs a tool's --version
\* command: exit status 0, a non-zero exit status, no such executable, or no
\* exit within the timeout.
CommandOutcomes == {"exit 0", "exit nonzero", "missing", "timeout"}

\* What _detect_disk_type can meet: a platform other than Windows, where no
\* command is run; or the PowerShell command exiting with one, both or neither
\* of the words in its output, exiting non-zero with no output, not being
\* found, or not exiting within the timeout.
DiskOutcomes ==
    {"not Windows", "prints SSD", "prints HDD", "prints SSD and HDD", "prints neither",
     "exit nonzero", "missing", "timeout"}

\* subprocess.run raises for these when check=True is passed.
RaisesWithCheck == {"exit nonzero", "missing", "timeout"}

\* subprocess.run raises for these when check is not passed.
RaisesWithoutCheck == {"missing", "timeout"}

\* _check_command: True when run returns, False when it raises.
check_command_result(outcome) ==
    IF outcome \in RaisesWithCheck THEN "False" ELSE "True"

\* _detect_disk_type: 'Unknown' when run raises, otherwise by the output, and
\* 'SSD' when no word is found or no command was run.
detect_disk_type_result(outcome) ==
    IF outcome \in RaisesWithoutCheck THEN "Unknown"
    ELSE IF outcome \in {"prints SSD", "prints SSD and HDD"} THEN "SSD"
    ELSE IF outcome = "prints HDD" THEN "HDD"
    ELSE "SSD"

ProbeFrame ==
    UNCHANGED <<system_profile, setup_log, constraints, processVars, collectorVars, clock,
                callerVars, threadVars, readVars>>

\* _profile_system calls the probes in this order.
ProbeOrder == <<"disk", "git", "node", "code">>

\* The probe _profile_system has reached: the first one not made yet, provided
\* none before it raised.
NextProbe(i) ==
    /\ probe[ProbeOrder[i]] = NotProbed
    /\ \A j \in 1 .. (i - 1) :
           probe[ProbeOrder[j]] # NotProbed /\ probe[ProbeOrder[j]].result # "raised"

\* disk_type = self._detect_disk_type()
detect_disk_type(outcome) ==
    /\ NextProbe(1)
    /\ probe' = [probe EXCEPT !["disk"] =
                     [outcome |-> outcome, result |-> detect_disk_type_result(outcome)]]
    /\ ProbeFrame

\* has_git, has_node, has_vscode = self._check_command('... --version')
check_command(i, outcome) ==
    /\ NextProbe(i)
    /\ probe' = [probe EXCEPT ![ProbeOrder[i]] =
                     [outcome |-> outcome, result |-> check_command_result(outcome)]]
    /\ ProbeFrame

ProbeNext ==
    \/ \E outcome \in DiskOutcomes : detect_disk_type(outcome)
    \/ \E i \in 2 .. Len(ProbeOrder), outcome \in CommandOutcomes : check_command(i, outcome)

ProbeSpec == CollectorAtZeroInit /\ [][ProbeNext]_vars

\* ================================================================= planner
CpuCounts == 0 .. MaxCpu
\* ram_available_gb in hundredths of a GB, on a quarter-GB grid.
RamAvailable == {25 * k : k \in 0 .. MaxRamQuarters}
\* disk_free_gb in hundredths of a GB.  round(x, 2) of a binary float at an
\* exact tie (third decimal 5) depends on the float's representation error, so
\* the values taken here have a third decimal of min(0.1*disk, 10) other than 5.
DiskFree == {0, 999, 1000, 1001, 5000, 5002, 5007, 20000}

SystemProfile ==
    [cpu_count : CpuCounts, ram_available_gb : RamAvailable, disk_free_gb : DiskFree]

reserved_ram_gb == 300

available_ram_gb(profile) == Max(profile.ram_available_gb - reserved_ram_gb, 100)

\* int(available_ram_gb * 1024 / 200), available_ram_gb in hundredths.
max_agents_by_ram(profile) == (available_ram_gb(profile) * 1024) \div (100 * 200)

max_agents_by_cpu(profile) == profile.cpu_count * 2

\* Variant without the ceiling of 20.
max_concurrent_agents_uncapped(profile) ==
    Min(max_agents_by_ram(profile), max_agents_by_cpu(profile))

max_concurrent_agents(profile) ==
    Min(Min(max_agents_by_ram(profile), max_agents_by_cpu(profile)), 20)

\* Variant that divides the budget in GB, not in MB.
max_memory_per_agent_gb(profile) ==
    available_ram_gb(profile) \div (100 * max_concurrent_agents(profile))

\* Variant that rounds to the nearest MB instead of truncating.
max_memory_per_agent_mb_rounded(profile) ==
    (2 * available_ram_gb(profile) * 1024 + 100 * max_concurrent_agents(profile))
        \div (200 * max_concurrent_agents(profile))

\* int((available_ram_gb * 1024) / max_concurrent_agents); only evaluated when
\* the divisor is not 0.
max_memory_per_agent_mb(profile) ==
    (available_ram_gb(profile) * 1024) \div (100 * max_concurrent_agents(profile))

\* round(x, 2) of a non-negative x given in thousandths, result in hundredths
\* (no exact tie reaches it, see DiskFree).
Round2(thousandths) == (thousandths + 5) \div 10

\* round(min(disk_free_gb * 0.1, 10.0), 2), in hundredths of a GB.
max_cache_size_gb(profile) == Round2(Min(profile.disk_free_gb, 10000))

max_log_size_gb == 100

\* Variant with >= in place of >.
enable_disk_cache_inclusive(profile) == profile.disk_free_gb >= 1000

enable_disk_cache(profile) == profile.disk_free_gb > 1000

enable_memory_cache(profile) == profile.ram_available_gb > 400

use_process_pool(profile) == profile.cpu_count >= 4 /\ profile.ram_available_gb > 400

recommended_workers(profile) == Min(profile.cpu_count, max_concurrent_agents(profile))

\* Variant whose worker count depends on the instance's log.
calculate_constraints_stateful(self, profile) ==
    IF max_concurrent_agents(profile) = 0
    THEN [status |-> "ZeroDivisionError"]
    ELSE [status |-> "ok",
          max_concurrent_agents |-> max_concurrent_agents(profile),
          max_memory_per_agent_mb |-> max_memory_per_agent_mb(profile),
          max_cache_size_gb |-> max_cache_size_gb(profile),
          max_log_size_gb |-> max_log_size_gb,
          enable_disk_cache |-> enable_disk_cache(profile),
          enable_memory_cache |-> enable_memory_cache(profile),
          use_process_pool |-> use_process_pool(profile),
          recommended_workers |-> Min(recommended_workers(profile), Len(self.setup_log) + 1)]

\* The value _calculate_constraints hands back: a ResourceConstraints record,
\* or the ZeroDivisionError that line 210 raises when the divisor is 0.
calculate_constraints(self, profile) ==
    IF max_concurrent_agents(profile) = 0
    THEN [status |-> "ZeroDivisionError"]
    ELSE [status |-> "ok",
          max_concurrent_agents |-> max_concurrent_agents(profile),
          max_memory_per_agent_mb |-> max_memory_per_agent_mb(profile),
          max_cache_size_gb |-> max_cache_size_gb(profile),
          max_log_size_gb |-> max_log_size_gb,
          enable_disk_cache |-> enable_disk_cache(profile),
          enable_memory_cache |-> enable_memory_cache(profile),
          use_process_pool |-> use_process_pool(profile),
          recommended_workers |-> recommended_workers(profile)]

\* SetupAgent.log: append one message to the instance's setup_log.
log(i, message) ==
    /\ Len(setup_log[i]) < MaxLogPrefix
    /\ constraints[i] = None
    /\ setup_log' = [setup_log EXCEPT ![i] = Append(@, message)]
    /\ UNCHANGED <<system_profile, constraints, processVars, collectorVars, clock, callerVars,
                   threadVars, readVars, probe>>

\* One call of instance i's _calculate_constraints on the snapshot: it logs,
\* computes, logs the result unless line 210 raised, and returns.
CalculateConstraints(i) ==
    /\ constraints[i] = None
    /\ LET result == calculate_constraints([setup_log |-> setup_log[i]], system_profile)
           logged == Append(setup_log[i], "  Calculating resource constraints...")
       IN /\ constraints' = [constraints EXCEPT ![i] = result]
          /\ setup_log' = [setup_log EXCEPT ![i] =
                 IF result.status = "ok"
                 THEN Append(logged, "  Resource Constraints: ...")
                 ELSE logged]
    /\ UNCHANGED <<system_profile, processVars, collectorVars, clock, callerVars,
                   threadVars, readVars, probe>>

PlanInit ==
    /\ system_profile \in SystemProfile
    /\ AgentsInit
    /\ ProcessInit
    /\ CollectorInit
    /\ ThreadsInit

PlanNext ==
    \/ \E i \in Instances : log(i, "...")
    \/ \E i \in Instances : CalculateConstraints(i)

PlanSpec == PlanInit /\ [][PlanNext]_vars


\* =========================================================== setup_project
\* Lexicographic >=, which is how Python compares two tuples and two strings.
LexGE(a, b) ==
    LET common == 1 .. Min(Len(a), Len(b))
        differ == {i \in common : a[i] # b[i]}
    IN IF differ = {}
       THEN Len(a) >= Len(b)
       ELSE LET first == CHOOSE i \in differ : \A j \in differ : i <= j
            IN a[first] > b[first]

\* The characters of a version string, as code points: '.' is 46, '0' is 48.
Dot == 46
Digit(d) == 48 + d

\* The interpreters a run can be under: sys.version_info, and the string
\* platform.python_version() gives for it (3.9.7, 3.10.4, 3.12.1).
Interpreters ==
    {[version_info |-> <<3, 9, 7>>,
      python_version |-> <<Digit(3), Dot, Digit(9), Dot, Digit(7)>>],
     [version_info |-> <<3, 10, 4>>,
      python_version |-> <<Digit(3), Dot, Digit(1), Digit(0), Dot, Digit(4)>>],
     [version_info |-> <<3, 12, 1>>,
      python_version |-> <<Digit(3), Dot, Digit(1), Digit(2), Dot, Digit(1)>>]}

\* Variant whose overall flag leaves the tools out.
validate_setup_without_tools(dirs_exist, version_info, profile) ==
    LET python_valid == LexGE(version_info, <<3, 10>>)
        tools_valid == profile.has_git
                         /\ LexGE(profile.python_version, <<Digit(3), Dot, Digit(1), Digit(0)>>)
    IN [directories |-> dirs_exist, python |-> python_valid, tools |-> tools_valid,
        overall |-> dirs_exist /\ python_valid]

\* _validate_setup: dirs_exist is whether all seven critical directories exist
\* under project_path; sys.version_info is compared as a tuple and
\* python_version as a string.
validate_setup(dirs_exist, version_info, profile) ==
    LET python_valid == LexGE(version_info, <<3, 10>>)
        tools_valid == profile.has_git
                         /\ LexGE(profile.python_version, <<Digit(3), Dot, Digit(1), Digit(0)>>)
    IN [directories |-> dirs_exist, python |-> python_valid, tools |-> tools_valid,
        overall |-> dirs_exist /\ python_valid /\ tools_valid]

\* What one "if" of _generate_recommendations appends.
Advise(condition, advisories) == IF condition THEN advisories ELSE <<>>

\* Variant in which the two disk rules are an if/elif.
generate_recommendations_exclusive(profile, limits) ==
    Advise(profile.ram_total_gb < 800,
           <<[rule |-> "LOW RAM", limit |-> limits.max_concurrent_agents]>>)
      \o Advise(profile.disk_type = "HDD", <<[rule |-> "HDD DETECTED"]>>)
      \o Advise(profile.disk_type # "HDD" /\ profile.disk_free_gb < 1000,
                <<[rule |-> "LOW DISK SPACE"]>>)
      \o Advise(profile.cpu_count < 4,
                <<[rule |-> "LOW CPU COUNT", limit |-> limits.max_concurrent_agents]>>)
      \o Advise(profile.os_type = "Windows",
                <<[rule |-> "WINDOWS ANTIVIRUS"], [rule |-> "WINDOWS LONG PATHS"]>>)
      \o Advise(profile.ram_total_gb >= 1600 /\ profile.disk_type = "SSD"
                    /\ profile.cpu_count >= 8,
                <<[rule |-> "EXCELLENT SYSTEM", limit |-> limits.max_concurrent_agents]>>)
      \o <<[rule |-> "CLOUD-FIRST"]>>

\* _generate_recommendations: each advisory is its rule and, where the string
\* is formatted with it, the agent limit.  *_gb in hundredths of a GB.
generate_recommendations(profile, limits) ==
    Advise(profile.ram_total_gb < 800,
           <<[rule |-> "LOW RAM", limit |-> limits.max_concurrent_agents]>>)
      \o Advise(profile.disk_type = "HDD", <<[rule |-> "HDD DETECTED"]>>)
      \o Advise(profile.disk_free_gb < 1000, <<[rule |-> "LOW DISK SPACE"]>>)
      \o Advise(profile.cpu_count < 4,
                <<[rule |-> "LOW CPU COUNT", limit |-> limits.max_concurrent_agents]>>)
      \o Advise(profile.os_type = "Windows",
                <<[rule |-> "WINDOWS ANTIVIRUS"], [rule |-> "WINDOWS LONG PATHS"]>>)
      \o Advise(profile.ram_total_gb >= 1600 /\ profile.disk_type = "SSD"
                    /\ profile.cpu_count >= 8,
                <<[rule |-> "EXCELLENT SYSTEM", limit |-> limits.max_concurrent_agents]>>)
      \o <<[rule |-> "CLOUD-FIRST"]>>

\* The machines a run can find itself on.  ram_available_gb is half of
\* ram_total_gb; has_node and has_vscode are read by nothing downstream.
SetupCpuCounts == {0, 2, 4, 8}
SetupRamTotals == {400, 800, 1600}
SetupDiskFree == {500, 1000, 5000}
OsTypes == {"Linux", "Windows"}

\* The disk probe's outcomes on a platform.
DiskOutcomesOn(os_type) ==
    IF os_type = "Windows" THEN DiskOutcomes \ {"not Windows"} ELSE {"not Windows"}

\* The record _profile_system builds from what it measured and probed.
profile_system(os_type, cpu_count, ram_total_gb, disk_free_gb, disk_outcome, git_outcome, interpreter) ==
    [os_type |-> os_type, cpu_count |-> cpu_count, ram_total_gb |-> ram_total_gb,
     ram_available_gb |-> ram_total_gb \div 2, disk_free_gb |-> disk_free_gb,
     disk_type |-> detect_disk_type_result(disk_outcome),
     python_version |-> interpreter.python_version,
     has_git |-> check_command_result(git_outcome) = "True"]

\* Variant of the phase order that saves before it validates.
PhaseOrderSaveFirst ==
    <<"snapshot", "constraints", "persistence", "validation", "recommendations">>

\* The phases of setup_project's try block, in program order.
PhaseOrder ==
    <<"snapshot", "constraints", "validation", "recommendations", "persistence">>

\* The phase the run has reached.
AtPhase(phase) ==
    /\ setup.status = "running"
    /\ setup.done < Len(PhaseOrder)
    /\ PhaseOrder[setup.done + 1] = phase

\* The instance whose setup_project runs.
Runner == 1

SetupFrame ==
    UNCHANGED <<metrics_collector, constructed, collectorVars, clock, callerVars,
                threadVars, readVars, probe>>

\* self.log(...) for each message; the lines a phase's helpers log for their
\* sub-steps are folded into the phase's own.
Logged(messages) == [setup_log EXCEPT ![Runner] = @ \o messages]

\* except Exception: logger.error(...); raise
Raised == [setup EXCEPT !.status = "raised"]

\* setup_project is called.
setup_project_call ==
    /\ setup.status = "not started"
    /\ setup' = [setup EXCEPT !.status = "running"]
    /\ setup_log' = Logged(<<"Starting intelligent project setup...">>)
    /\ UNCHANGED <<system_profile, constraints>>
    /\ SetupFrame

\* self.system_profile = self._profile_system(), when psutil answers.
setup_snapshot(profile) ==
    /\ AtPhase("snapshot")
    /\ system_profile' = profile
    /\ setup' = [setup EXCEPT !.done = @ + 1]
    /\ setup_log' = Logged(<<"Phase 1: Analyzing system resources...", "  System Profile: ...">>)
    /\ UNCHANGED constraints
    /\ SetupFrame

\* self._profile_system(), when a psutil call raises.
setup_snapshot_raises ==
    /\ AtPhase("snapshot")
    /\ setup' = Raised
    /\ setup_log' = Logged(<<"Phase 1: Analyzing system resources...">>)
    /\ UNCHANGED <<system_profile, constraints>>
    /\ SetupFrame

\* self.constraints = self._calculate_constraints(self.system_profile)
setup_constraints ==
    /\ AtPhase("constraints")
    /\ LET result == calculate_constraints([setup_log |-> setup_log[Runner]], system_profile)
       IN IF result.status = "ok"
          THEN /\ constraints' = [constraints EXCEPT ![Runner] = result]
               /\ setup' = [setup EXCEPT !.done = @ + 1]
               /\ setup_log' = Logged(<<"  Calculating resource constraints...",
                                        "  Resource Constraints: ...">>)
          ELSE /\ constraints' = constraints
               /\ setup' = Raised
               /\ setup_log' = Logged(<<"  Calculating resource constraints...">>)
    /\ UNCHANGED system_profile
    /\ SetupFrame

\* validation_results = self._validate_setup(project_path), under the
\* interpreter whose version string the snapshot recorded.
setup_validation(dirs_exist, interpreter) ==
    /\ AtPhase("validation")
    /\ interpreter.python_version = system_profile.python_version
    /\ setup' = [setup EXCEPT !.done = @ + 1,
                              !.validation =
                                  validate_setup(dirs_exist, interpreter.version_info,
                                                 system_profile)]
    /\ setup_log' = Logged(<<"Phase 2: Validating setup...">>)
    /\ UNCHANGED <<system_profile, constraints>>
    /\ SetupFrame

\* recommendations = self._generate_recommendations()
setup_recommendations ==
    /\ AtPhase("recommendations")
    /\ setup' = [setup EXCEPT !.done = @ + 1,
                              !.recommendations =
                                  generate_recommendations(system_profile, constraints[Runner])]
    /\ setup_log' = Logged(<<"Phase 3: Generating optimization recommendations...">>)
    /\ UNCHANGED <<system_profile, constraints>>
    /\ SetupFrame

\* self._save_workspace_config(project_path): the file is written, or open()
\* raises because project_path is not a writable directory.
setup_persistence(writable) ==
    /\ AtPhase("persistence")
    /\ IF writable
       THEN /\ setup' = [setup EXCEPT !.done = @ + 1,
                                      !.config =
                                          [system_profile |-> system_profile,
                                           resource_constraints |-> constraints[Runner],
                                           setup_timestamp |-> clock,
                                           setup_version |-> "1.0.0"]]
            /\ setup_log' = Logged(<<"Phase 4: Saving workspace configuration...",
                                     "  Workspace configuration saved to: ...">>)
       ELSE /\ setup' = Raised
            /\ setup_log' = Logged(<<"Phase 4: Saving workspace configuration...">>)
    /\ UNCHANGED <<system_profile, constraints>>
    /\ SetupFrame

\* return {...}
setup_project_return ==
    /\ setup.status = "running"
    /\ setup.done = Len(PhaseOrder)
    /\ setup' = [setup EXCEPT !.status = "returned",
                              !.report =
                                  [system_profile |-> system_profile,
                                   constraints |-> constraints[Runner],
                                   validation |-> setup.validation,
                                   recommendations |-> setup.recommendations,
                                   setup_log |-> Append(setup_log[Runner], "Setup complete!")]]
    /\ setup_log' = Logged(<<"Setup complete!">>)
    /\ UNCHANGED <<system_profile, constraints>>
    /\ SetupFrame

SetupNext ==
    \/ setup_project_call
    \/ \E os_type \in OsTypes, cpu_count \in SetupCpuCounts, ram_total_gb \in SetupRamTotals,
          disk_free_gb \in SetupDiskFree, git_outcome \in CommandOutcomes,
          interpreter \in Interpreters :
           \E disk_outcome \in DiskOutcomesOn(os_type) :
               setup_snapshot(profile_system(os_type, cpu_count, ram_total_gb, disk_free_gb,
                                             disk_outcome, git_outcome, interpreter))
    \/ setup_snapshot_raises
    \/ setup_constraints
    \/ \E dirs_exist \in BOOLEAN, interpreter \in Interpreters :
           setup_validation(dirs_exist, interpreter)
    \/ setup_recommendations
    \/ \E writable \in BOOLEAN : setup_persistence(writable)
    \/ setup_project_return

SetupSpec == CollectorAtZeroInit /\ [][SetupNext]_vars

\* ======================================================== collector claims
\* How far the five state counters together exceed total_tasks.
Excess(tm) ==
    tm.pending_tasks + tm.in_progress_tasks + tm.completed_tasks + tm.failed_tasks
        + tm.cancelled_tasks - tm.total_tasks

\* C1 as claimed: after each call of any sequence of task lifecycle calls,
\* pending + in_progress + completed + failed + cancelled = total.
C1_TaskIdentity == Excess(task_metrics) = 0

\* C1 amended: record_task_created, _started, _completed, _failed, and a
\* record_task_cancelled made while in_progress_tasks > 0 or pending_tasks > 0,
\* leave (pending + in_progress + completed + failed + cancelled) - total
\* unchanged; a record_task_cancelled made while neither is positive raises it
\* by exactly 1.  The difference is 0 on a fresh collector.
C1_TaskIdentityUpToBareCancels ==
    /\ (call.op = "__init__" => Excess(task_metrics) = 0)
    /\ [][Excess(task_metrics') = Excess(task_metrics) +
            (IF /\ call'.op = "record_task_cancelled"
                /\ task_metrics.in_progress_tasks <= 0
                /\ task_metrics.pending_tasks <= 0
             THEN 1 ELSE 0)]_vars

\* A cancel of a pending task has just kept the identity, with every counter used.
C1_Witness ==
    /\ call.op = "record_task_cancelled"
    /\ Excess(task_metrics) = 0
    /\ task_metrics.total_tasks = 2
    /\ task_metrics.cancelled_tasks = 1
    /\ task_metrics.completed_tasks = 1

\* Every thread has made all its calls and is in none.
AllReturned ==
    \A t \in Threads : pc[t] = "idle" /\ calls_made[t] = CallsPerThread

\* C2: once NumThreads threads have each made CallsPerThread calls of
\* record_task_created, under any interleaving of their steps, total_tasks and
\* pending_tasks both equal NumThreads * CallsPerThread.
C2_NoLostIncrement ==
    AllReturned =>
        /\ task_metrics.total_tasks = NumThreads * CallsPerThread
        /\ task_metrics.pending_tasks = NumThreads * CallsPerThread

\* All calls have returned and every one was counted.
C2_Witness ==
    /\ AllReturned
    /\ task_metrics.total_tasks = NumThreads * CallsPerThread
    /\ NumThreads > 1

\* C9: for every agent, after its N-th completion event tasks_completed +
\* tasks_failed = N, total_execution_time is the sum of the N execution times
\* and average_execution_time = total_execution_time / N.
C9_AgentAverage ==
    \A a \in AgentIds :
        /\ events[a].count > 0 => a \in DOMAIN agent_metrics
        /\ a \in DOMAIN agent_metrics =>
               LET m == agent_metrics[a]
                   N == events[a].count
               IN /\ N > 0
                  /\ m.tasks_completed + m.tasks_failed = N
                  /\ m.total_execution_time = events[a].time
                  /\ m.average_execution_time[2] > 0
                  /\ m.average_execution_time[1] * N
                         = m.total_execution_time * m.average_execution_time[2]

\* Three successes and one failure with times summing to 12 give an average of 3.
C9_Witness ==
    /\ "a1" \in DOMAIN agent_metrics
    /\ events["a1"] = [count |-> 4, time |-> 12]
    /\ agent_metrics["a1"].tasks_completed = 3
    /\ agent_metrics["a1"].tasks_failed = 1
    /\ agent_metrics["a1"].total_execution_time = 12
    /\ agent_metrics["a1"].average_execution_time = <<3, 1>>

\* C10: record_agent_tokens and record_agent_quality_score for an agent_id
\* without a record change nothing in the collector and create no record, so
\* the summary shows no such agent.
C10_UnknownAgentIsNoOp ==
    [][(/\ call'.op \in {"record_agent_tokens", "record_agent_quality_score"}
        /\ call'.agent_id \notin DOMAIN agent_metrics)
       => /\ UNCHANGED collectorVars
          /\ call'.agent_id \notin DOMAIN summary_agents']_vars

\* Tokens were just reported for an agent without a record, while another
\* agent has one.
C10_Witness ==
    /\ call.op = "record_agent_tokens"
    /\ call.agent_id \notin DOMAIN agent_metrics
    /\ DOMAIN agent_metrics # {}

\* ========================================================== planner claims
Returned(i) == constraints[i].status = "ok"

\* C3: every constraints record the planner returns has
\* 1 <= max_concurrent_agents <= 20 and max_concurrent_agents <= cpu_count * 2.
C3_AgentsWithinBounds ==
    \A i \in Instances : Returned(i) =>
        /\ 1 <= constraints[i].max_concurrent_agents
        /\ constraints[i].max_concurrent_agents <= 20
        /\ constraints[i].max_concurrent_agents <= system_profile.cpu_count * 2

\* A returned record where RAM and CPU both allow more than 20 agents.
C3_Witness ==
    \E i \in Instances :
        /\ Returned(i)
        /\ system_profile.cpu_count * 2 > 20
        /\ constraints[i].max_concurrent_agents = 20

\* C4: the planner never fails with a division by zero; a snapshot whose
\* agent count resolves to 0 still gets a ResourceConstraints record.
C4_NeverDividesByZero ==
    \A i \in Instances : constraints[i].status # "ZeroDivisionError"

\* C5: every returned record has max_memory_per_agent_mb >= 50.
C5_MemoryPerAgentAtLeast50 ==
    \A i \in Instances : Returned(i) => constraints[i].max_memory_per_agent_mb >= 50

\* A returned record for the smallest RAM budget (1 GB shared by 5 agents).
C5_Witness ==
    \E i \in Instances :
        /\ Returned(i)
        /\ system_profile.ram_available_gb <= 400
        /\ constraints[i].max_concurrent_agents = 5
        /\ constraints[i].max_memory_per_agent_mb = 204

\* The reference formulas of the planner, on hundredths of a GB.
RefAvailableRam == 
    IF system_profile.ram_available_gb - 300 >= 100
    THEN system_profile.ram_available_gb - 300 ELSE 100
RefAgentsByRam == (RefAvailableRam * 1024) \div 20000
RefAgentsByCpu == 2 * system_profile.cpu_count
RefMaxAgents ==
    CHOOSE m \in {RefAgentsByRam, RefAgentsByCpu, 20} :
        m <= RefAgentsByRam /\ m <= RefAgentsByCpu /\ m <= 20
RefExample == [cpu_count |-> 4, ram_available_gb |-> 1000, disk_free_gb |-> 5000]
RefExampleResult ==
    [status |-> "ok", max_concurrent_agents |-> 8, max_memory_per_agent_mb |-> 896,
     max_cache_size_gb |-> 500, max_log_size_gb |-> 100, enable_disk_cache |-> TRUE,
     enable_memory_cache |-> TRUE, use_process_pool |-> TRUE, recommended_workers |-> 4]

\* Every field but max_cache_size_gb against its reference formula.
RefFieldsExceptCache(r) ==
    /\ r.max_concurrent_agents = RefMaxAgents
    /\ r.max_memory_per_agent_mb = (RefAvailableRam * 1024) \div (100 * RefMaxAgents)
    /\ r.max_log_size_gb = 100
    /\ r.enable_disk_cache = (system_profile.disk_free_gb > 1000)
    /\ r.enable_memory_cache = (system_profile.ram_available_gb > 400)
    /\ r.use_process_pool =
           (system_profile.cpu_count >= 4 /\ system_profile.ram_available_gb > 400)
    /\ r.recommended_workers =
           (IF system_profile.cpu_count <= RefMaxAgents
            THEN system_profile.cpu_count ELSE RefMaxAgents)
    /\ (system_profile = RefExample => r = RefExampleResult)

\* 0.10 * disk_free_gb capped at 10 GB, in thousandths of a GB.
RefCacheThousandths ==
    IF system_profile.disk_free_gb <= 10000 THEN system_profile.disk_free_gb ELSE 10000

C8_ProductApproximatesBudget ==
    \A i \in Instances : Returned(i) =>
        LET budget == RefAvailableRam * 1024
            product == 100 * constraints[i].max_concurrent_agents
                           * constraints[i].max_memory_per_agent_mb
        IN /\ product <= budget
           /\ budget - product < 100 * constraints[i].max_concurrent_agents

\* A returned record whose product loses something to the floor.
C8_Witness ==
    \E i \in Instances :
        /\ Returned(i)
        /\ 100 * constraints[i].max_concurrent_agents
               * constraints[i].max_memory_per_agent_mb < RefAvailableRam * 1024

\* C11: a value returned by get_agent_metrics, get_all_agent_metrics,
\* get_task_metrics, get_resource_metrics, get_library_metrics, get_cost_metrics
\* or get_metric is not changed by any record_* or update_* call made after the
\* read returned: what the caller sees through it is the same before and after
\* every such call.
C11_ReadsReturnCopies ==
    [][(held.op \in ReadOps /\ held' = held /\ call'.op \in WriteOps)
          => Observed(held)' = Observed(held)]_vars

RECURSIVE TasksAfter(_)
TasksAfter(k) == IF k = 0 THEN TaskMetrics ELSE task_created(TasksAfter(k - 1))

\* The agent records after j whole
\* record_agent_task_completion("a1", "coder", 2, True) calls.
RECURSIVE AgentsAfter(_)
AgentsAfter(j) ==
    IF j = 0 THEN EmptyMap
    ELSE agent_task_completion(AgentsAfter(j - 1), "a1", "coder", 2, TRUE, clock)

WritesPossible == 0 .. (NumThreads * CallsPerThread)

\* C13: under any interleaving of writer threads and a reader, every summary
\* get_summary returned equals the collector state after some whole number of
\* completed writes: its task family is that after k whole
\* record_task_created calls and its agent records those after j whole
\* record_agent_task_completion calls, never a half-applied one.
C13_SummaryIsAtomic ==
    \A t \in Readers :
        returned[t] # None =>
            /\ \E k \in WritesPossible : returned[t].tasks = TasksAfter(k)
            /\ \E j \in WritesPossible : returned[t].agents = AgentsAfter(j)

\* A summary showing writes of both kinds was built while a writer was
\* waiting for the lock.
C13_Witness ==
    \E t \in Readers :
        /\ pc[t] = "s_release"
        /\ returned[t] # None
        /\ returned[t].tasks.total_tasks > 0
        /\ "a1" \in DOMAIN returned[t].agents
        /\ \E w \in Threads : pc[w] \in {"acquire", "c_acquire"}

\* The collector as MetricsCollector() leaves it, field by field.
FreshlyConstructed ==
    /\ DOMAIN agent_metrics = {}
    /\ \A f \in {"total_tasks", "pending_tasks", "in_progress_tasks", "completed_tasks",
                  "failed_tasks", "cancelled_tasks", "total_duration"} :
           task_metrics[f] = 0
    /\ \A f \in {"average_duration", "qc_approval_rate", "qc_rejection_rate"} :
           task_metrics[f][1] = 0
    /\ \A f \in DOMAIN resource_metrics : resource_metrics[f] = 0
    /\ \A f \in {"tools_created", "skills_created", "mcps_created",
                  "tools_used", "skills_used", "mcps_used"} :
           library_metrics[f] = 0
    /\ \A f \in {"tool_effectiveness", "skill_effectiveness", "mcp_effectiveness"} :
           DOMAIN library_metrics[f] = {}
    /\ library_metrics.improvements_measured = <<>>
    /\ \A f \in {"total_cost_usd", "daily_cost_usd", "monthly_cost_usd", "tokens_used",
                  "api_calls"} :
           cost_metrics[f] = 0
    /\ cost_metrics.average_cost_per_task[1] = 0
    /\ DOMAIN cost_metrics.cost_by_agent = {}
    /\ DOMAIN cost_metrics.cost_by_model = {}
    /\ DOMAIN custom_metrics = {}
    /\ lock = Free

\* C14: a reset() made in any reachable state with no call in flight leaves no
\* agent record, every task, resource, library and cost counter and rate 0,
\* every map and the improvement log empty and no custom series, and sets
\* start_time to the time of the reset.
C14_ResetGivesFreshCollector ==
    [][(call'.op = "reset" /\ clock' = clock)
          => (FreshlyConstructed' /\ start_time' = clock')]_vars

\* A reset made after time had passed and a task had been recorded: the record
\* handed out before the reset still shows the task, the collector shows none,
\* and start_time is the later time.
C14_Witness ==
    /\ call.op = "reset"
    /\ held.op = "get_task_metrics"
    /\ held.shared = {}
    /\ held.value.total_tasks > 0
    /\ FreshlyConstructed
    /\ start_time > 0
    /\ start_time = clock

\* The entry of a per-key cost map, 0 where the key has none.
CostOf(by_key, key) == IF key \in DOMAIN by_key THEN by_key[key] ELSE 0

\* What record_cost(cost_usd, key, ...) does to one per-key map: a key that is
\* given (neither None nor empty) has grown by cost_usd, being created if it
\* was missing, and nothing else in the map has changed.
KeyGrown(before, after, key, cost_usd) ==
    IF key \in {NoKey, ""}
    THEN after = before
    ELSE /\ DOMAIN after = DOMAIN before \cup {key}
         /\ after[key] = CostOf(before, key) + cost_usd
         /\ \A k \in DOMAIN before \ {key} : after[k] = before[k]

\* C15: after every record_cost call total_cost_usd, tokens_used and api_calls
\* have grown by cost_usd, tokens and 1, cost_by_agent[agent_id] and
\* cost_by_model[model] have grown by cost_usd when the key is given, and
\* average_cost_per_task is total_cost_usd / completed_tasks with both as they
\* are after the call, or 0 when completed_tasks is 0.
C15_CostRecorded ==
    [][call'.op = "record_cost" =>
          /\ cost_metrics'.total_cost_usd = cost_metrics.total_cost_usd + call'.cost_usd
          /\ cost_metrics'.tokens_used = cost_metrics.tokens_used + call'.tokens
          /\ cost_metrics'.api_calls = cost_metrics.api_calls + 1
          /\ KeyGrown(cost_metrics.cost_by_agent, cost_metrics'.cost_by_agent,
                      call'.agent_id, call'.cost_usd)
          /\ KeyGrown(cost_metrics.cost_by_model, cost_metrics'.cost_by_model,
                      call'.model, call'.cost_usd)
          /\ IF task_metrics'.completed_tasks = 0
             THEN cost_metrics'.average_cost_per_task[1] = 0
             ELSE /\ cost_metrics'.average_cost_per_task[1] * task_metrics'.completed_tasks
                        = cost_metrics'.total_cost_usd * cost_metrics'.average_cost_per_task[2]
                  /\ cost_metrics'.average_cost_per_task[2] > 0]_vars

\* A cost recorded for a known agent and model after another cost and two
\* task completions.
C15_Witness ==
    /\ call.op = "record_cost"
    /\ call.agent_id \in AgentIds
    /\ call.model \in Models
    /\ cost_metrics.api_calls = 2
    /\ task_metrics.completed_tasks = 2
    /\ cost_metrics.cost_by_agent[call.agent_id] = cost_metrics.total_cost_usd
    /\ cost_metrics.average_cost_per_task = <<6, 1>>

TaskCounters ==
    {"total_tasks", "pending_tasks", "in_progress_tasks", "completed_tasks",
     "failed_tasks", "cancelled_tasks"}

\* rate = n / d, for a rate kept as a reduced fraction.
RateIs(rate, n, d) == rate[2] > 0 /\ rate[1] * d = n * rate[2]

\* C16: record_qc_result changes no task counter; when completed_tasks +
\* failed_tasks > 0, record_qc_result(True) sets qc_approval_rate to
\* completed_tasks / (completed_tasks + failed_tasks) and
\* record_qc_result(False) sets qc_rejection_rate to
\* failed_tasks / (completed_tasks + failed_tasks); when the sum is 0 both
\* rates are left unchanged.
C16_QcRates ==
    [][call'.op = "record_qc_result" =>
          LET total_qc == task_metrics.completed_tasks + task_metrics.failed_tasks
          IN /\ \A f \in TaskCounters : task_metrics'[f] = task_metrics[f]
             /\ (total_qc > 0 /\ call'.approved) =>
                    RateIs(task_metrics'.qc_approval_rate,
                           task_metrics.completed_tasks, total_qc)
             /\ (total_qc > 0 /\ ~call'.approved) =>
                    RateIs(task_metrics'.qc_rejection_rate,
                           task_metrics.failed_tasks, total_qc)
             /\ total_qc = 0 =>
                    /\ task_metrics'.qc_approval_rate = task_metrics.qc_approval_rate
                    /\ task_metrics'.qc_rejection_rate = task_metrics.qc_rejection_rate]_vars

\* A rejection recorded after two completions and one failure: the rejection
\* rate is 1/3; the approval rate is the 1/2 an earlier approval left.
C16_Witness ==
    /\ call.op = "record_qc_result"
    /\ ~call.approved
    /\ task_metrics.completed_tasks = 2
    /\ task_metrics.failed_tasks = 1
    /\ task_metrics.qc_rejection_rate = <<1, 3>>
    /\ task_metrics.qc_approval_rate = <<1, 2>>

\* The resource field an argument of update_resource_metrics is stored in.
FieldOf(arg) == IF arg = "cpu_usage" THEN "cpu_usage_percent" ELSE arg

\* C17: after update_resource_metrics each resource field whose argument was
\* supplied has the supplied value, every other resource field has its
\* previous value, and nothing outside the resource family has changed.
C17_SparseOverwrite ==
    [][call'.op = "update_resource_metrics" =>
          /\ \A arg \in DOMAIN call'.args :
                 resource_metrics'[FieldOf(arg)] =
                     IF call'.args[arg] # Omitted
                     THEN call'.args[arg]
                     ELSE resource_metrics[FieldOf(arg)]
          /\ resource_metrics'.max_concurrent_agents = resource_metrics.max_concurrent_agents
          /\ UNCHANGED <<agent_metrics, task_metrics, library_metrics, cost_metrics,
                         custom_metrics, start_time, lock>>]_vars

\* A call that supplied cpu_usage = 0 and active_agents, after calls that had
\* set the CPU and memory usage and while a task was on record: the CPU usage
\* is 0 and the memory usage is what the earlier call left.
C17_Witness ==
    /\ call.op = "update_resource_metrics"
    /\ call.args.cpu_usage = 0
    /\ call.args.active_agents = 3
    /\ call.args.memory_usage_mb = Omitted
    /\ resource_metrics.cpu_usage_percent = 0
    /\ resource_metrics.active_agents = 3
    /\ resource_metrics.memory_usage_mb = 512
    /\ task_metrics.total_tasks > 0

LibraryOps ==
    {"record_library_creation", "record_library_usage", "record_library_effectiveness"}

KnownTypes == {"tool", "skill", "mcp"}

\* The one field of the library family a call on a known kind writes.
TargetField(op, ty) ==
    CASE op = "record_library_creation" ->
             (CASE ty = "tool" -> "tools_created" [] ty = "skill" -> "skills_created"
                [] ty = "mcp" -> "mcps_created")
      [] op = "record_library_usage" ->
             (CASE ty = "tool" -> "tools_used" [] ty = "skill" -> "skills_used"
                [] ty = "mcp" -> "mcps_used")
      [] op = "record_library_effectiveness" ->
             (CASE ty = "tool" -> "tool_effectiveness" [] ty = "skill" -> "skill_effectiveness"
                [] ty = "mcp" -> "mcp_effectiveness")

\* C18: record_library_creation, record_library_usage and
\* record_library_effectiveness with kind tool, skill or mcp change only the
\* counter (by one) or the effectiveness map (the item's entry) of that kind;
\* with any other kind they leave the whole collector state unchanged.
C18_LibraryDispatch ==
    [][call'.op \in LibraryOps =>
          /\ UNCHANGED <<agent_metrics, task_metrics, resource_metrics, cost_metrics,
                         custom_metrics, start_time, lock>>
          /\ IF call'.library_type \in KnownTypes
             THEN LET target == TargetField(call'.op, call'.library_type)
                  IN /\ \A f \in DOMAIN library_metrics \ {target} :
                            library_metrics'[f] = library_metrics[f]
                     /\ IF call'.op = "record_library_effectiveness"
                        THEN /\ DOMAIN library_metrics'[target]
                                    = DOMAIN library_metrics[target] \cup {call'.item_id}
                             /\ library_metrics'[target][call'.item_id]
                                    = call'.effectiveness
                             /\ \A i \in DOMAIN library_metrics[target] \ {call'.item_id} :
                                    library_metrics'[target][i] = library_metrics[target][i]
                        ELSE library_metrics'[target] = library_metrics[target] + 1
             ELSE library_metrics' = library_metrics]_vars

\* A usage of an unknown kind recorded after a tool and an mcp had been created
\* and a skill scored: the call returned and the counters show only those.
C18_Witness ==
    /\ call.op = "record_library_usage"
    /\ call.library_type \notin KnownTypes
    /\ library_metrics.tools_created = 1
    /\ library_metrics.mcps_created = 1
    /\ library_metrics.skills_created = 0
    /\ library_metrics.tools_used + library_metrics.skills_used
          + library_metrics.mcps_used = 0
    /\ DOMAIN library_metrics.skill_effectiveness # {}
    /\ DOMAIN library_metrics.tool_effectiveness = {}

\* C19: record_improvement appends exactly one entry to the end of
\* improvements_measured and leaves the earlier entries unchanged; the entry's
\* improvement_percent is (new_value - baseline) / baseline * 100 when
\* baseline > 0 and 0 otherwise.
C19_ImprovementAppended ==
    [][call'.op = "record_improvement" =>
          LET before == library_metrics.improvements_measured
              after == library_metrics'.improvements_measured
              entry == after[Len(after)]
          IN /\ Len(after) = Len(before) + 1
             /\ SubSeq(after, 1, Len(before)) = before
             /\ entry.type = call'.improvement_type
             /\ entry.baseline = call'.baseline
             /\ entry.new_value = call'.new_value
             /\ IF call'.baseline > 0
                THEN /\ entry.improvement_percent[2] > 0
                     /\ entry.improvement_percent[1] * call'.baseline
                           = (call'.new_value - call'.baseline) * 100
                               * entry.improvement_percent[2]
                ELSE entry.improvement_percent[1] = 0]_vars

\* record_improvement(type, baseline = 0, new_value = 5) made after an
\* improvement from 4 to 5: the log holds the 25 percent entry and then the 0
\* percent entry.
C19_Witness ==
    /\ call.op = "record_improvement"
    /\ call.baseline = 0
    /\ call.new_value = 5
    /\ Len(library_metrics.improvements_measured) = 2
    /\ library_metrics.improvements_measured[1].baseline = 4
    /\ library_metrics.improvements_measured[1].improvement_percent = <<25, 1>>
    /\ library_metrics.improvements_measured[2].baseline = 0
    /\ library_metrics.improvements_measured[2].improvement_percent = <<0, 1>>

\* The ways a probe's command can fail: it errors, it is missing, or it does
\* not finish within the timeout.
ProbeFailures == {"exit nonzero", "missing", "timeout"}

\* C20: a tool probe whose command errors, is missing or exceeds the timeout
\* returns False, a disk-type probe that fails returns 'Unknown', and no probe
\* raises to its caller.
C20_ProbeFailuresDegrade ==
    /\ \A p \in Probes \ {"disk"} :
           probe[p].outcome \in ProbeFailures => probe[p].result = "False"
    /\ probe["disk"].outcome \in ProbeFailures => probe["disk"].result = "Unknown"
    /\ \A p \in Probes : probe[p].result # "raised"

\* C23: record_task_cancelled increments cancelled_tasks by exactly 1 and
\* decrements in_progress_tasks when it is positive, otherwise pending_tasks
\* when that is positive, otherwise nothing; total_tasks, completed_tasks and
\* failed_tasks are unchanged.
C23_CancelTakesOne ==
    [][call'.op = "record_task_cancelled" =>
          /\ task_metrics'.cancelled_tasks = task_metrics.cancelled_tasks + 1
          /\ task_metrics'.in_progress_tasks =
                 IF task_metrics.in_progress_tasks > 0
                 THEN task_metrics.in_progress_tasks - 1
                 ELSE task_metrics.in_progress_tasks
          /\ task_metrics'.pending_tasks =
                 IF task_metrics.in_progress_tasks <= 0 /\ task_metrics.pending_tasks > 0
                 THEN task_metrics.pending_tasks - 1
                 ELSE task_metrics.pending_tasks
          /\ task_metrics'.total_tasks = task_metrics.total_tasks
          /\ task_metrics'.completed_tasks = task_metrics.completed_tasks
          /\ task_metrics'.failed_tasks = task_metrics.failed_tasks]_vars

\* A cancel made while one task was pending and one in progress: the pending
\* one is still pending.
C23_Witness ==
    /\ call.op = "record_task_cancelled"
    /\ task_metrics.total_tasks = 2
    /\ task_metrics.cancelled_tasks = 1
    /\ task_metrics.pending_tasks = 1
    /\ task_metrics.in_progress_tasks = 0
    /\ task_metrics.completed_tasks = 0
    /\ task_metrics.failed_tasks = 0

\* C28: in every reachable state all six task counters are non-negative.
C28_CountersNonNegative ==
    \A f \in TaskCounters : task_metrics[f] >= 0

\* The series of a name, empty when none exists.
SeriesOf(series, name) == IF name \in DOMAIN series THEN series[name] ELSE <<>>

\* C27: record_metric appends exactly one sample to the end of the series of
\* the given name, creating it on first use, and changes no other series;
\* every step other than a reset leaves each existing series in place with its
\* samples as a prefix of what it holds afterwards; get_metric of a name never
\* recorded returns an empty list and creates no series.
C27_SeriesAppendOnly ==
    [][/\ call'.op = "record_metric" =>
            LET before == SeriesOf(custom_metrics, call'.name)
                after == SeriesOf(custom_metrics', call'.name)
            IN /\ DOMAIN custom_metrics' = DOMAIN custom_metrics \cup {call'.name}
               /\ Len(after) = Len(before) + 1
               /\ SubSeq(after, 1, Len(before)) = before
               /\ after[Len(after)].value = call'.value
               /\ \A n \in DOMAIN custom_metrics \ {call'.name} :
                      custom_metrics'[n] = custom_metrics[n]
       /\ call'.op # "reset" =>
            \A n \in DOMAIN custom_metrics :
                /\ n \in DOMAIN custom_metrics'
                /\ Len(custom_metrics'[n]) >= Len(custom_metrics[n])
                /\ SubSeq(custom_metrics'[n], 1, Len(custom_metrics[n])) = custom_metrics[n]
       /\ call'.op = "get_metric" =>
            /\ DOMAIN custom_metrics' = DOMAIN custom_metrics
            /\ call'.name \notin DOMAIN custom_metrics => held'.value = <<>>]_vars

\* One series holds the samples 2 then 1 in that order, and a get_metric of
\* the name never recorded has just returned the empty list.
C27_Witness ==
    /\ call.op = "get_metric"
    /\ call.name = "errors"
    /\ held.value = <<>>
    /\ DOMAIN custom_metrics = {"latency"}
    /\ Len(custom_metrics["latency"]) = 2
    /\ custom_metrics["latency"][1].value = 2
    /\ custom_metrics["latency"][2].value = 1

\* C29: under any interleaving of threads calling get_metrics_collector, every
\* call returns the same MetricsCollector instance.
C29_OneSharedCollector ==
    \A t, u \in Threads :
        (returned[t] # None /\ returned[u] # None) => returned[t] = returned[u]

\* ============================================================ setup claims
\* C21: the validation phase always hands back a report, whatever is missing,
\* and the report's overall flag is the conjunction of its directories,
\* python and tools flags.
C21_ValidationReported ==
    [][(setup.status = "running" /\ setup.done = 2 /\ setup' # setup) =>
           LET report == setup'.validation
           IN /\ setup'.status = "running"
              /\ report # None
              /\ report.overall = (report.directories /\ report.python /\ report.tools)]_vars

\* A run that was handed a report with all three flags false.
C21_Witness ==
    /\ setup.validation # None
    /\ ~setup.validation.directories
    /\ ~setup.validation.python
    /\ ~setup.validation.tools
    /\ ~setup.validation.overall

\* The snapshot with disk_type 'Unknown' in place of 'SSD' and the reverse.
DiskTwin(profile) ==
    [profile EXCEPT !.disk_type = IF @ = "SSD" THEN "Unknown" ELSE "SSD"]

\* C22: for a snapshot whose disk_type is 'Unknown' or 'SSD', the planner and
\* the recommender give the same constraints and the same advisories as for
\* the snapshot that differs only in having the other of the two.
C22_UnknownAsSsd ==
    (setup.recommendations # <<>> /\ system_profile.disk_type \in {"Unknown", "SSD"}) =>
        LET twin == DiskTwin(system_profile)
            limits == calculate_constraints([setup_log |-> <<>>], twin)
        IN /\ limits = constraints[Runner]
           /\ generate_recommendations(twin, limits) = setup.recommendations

\* The rules in the order the recommender evaluates them.
RuleOrder ==
    <<"LOW RAM", "HDD DETECTED", "LOW DISK SPACE", "LOW CPU COUNT", "WINDOWS ANTIVIRUS",
      "WINDOWS LONG PATHS", "EXCELLENT SYSTEM", "CLOUD-FIRST">>

RulePosition(rule) == CHOOSE i \in DOMAIN RuleOrder : RuleOrder[i] = rule

Advised(rule) == \E i \in DOMAIN setup.recommendations : setup.recommendations[i].rule = rule

\* C24: every rule whose condition holds contributes its advisory and no other
\* does, whatever the other rules did; the advisories come in rule order; the
\* excellent-system advisory is there iff ram_total_gb >= 16, disk_type is
\* 'SSD' and cpu_count >= 8.
C24_RulesIndependent ==
    setup.recommendations # <<>> =>
        /\ Advised("LOW RAM") <=> system_profile.ram_total_gb < 800
        /\ Advised("HDD DETECTED") <=> system_profile.disk_type = "HDD"
        /\ Advised("LOW DISK SPACE") <=> system_profile.disk_free_gb < 1000
        /\ Advised("LOW CPU COUNT") <=> system_profile.cpu_count < 4
        /\ Advised("WINDOWS ANTIVIRUS") <=> system_profile.os_type = "Windows"
        /\ Advised("WINDOWS LONG PATHS") <=> system_profile.os_type = "Windows"
        /\ Advised("EXCELLENT SYSTEM") <=>
               (/\ system_profile.ram_total_gb >= 1600
                /\ system_profile.disk_type = "SSD"
                /\ system_profile.cpu_count >= 8)
        /\ \A i, j \in DOMAIN setup.recommendations :
               i < j => RulePosition(setup.recommendations[i].rule)
                          < RulePosition(setup.recommendations[j].rule)

\* A Windows machine with 4 GB of RAM, an HDD with 5 GB free and 2 CPUs: all
\* of the low-resource rules and the Windows hints fired together.
C24_Witness ==
    /\ setup.recommendations # <<>>
    /\ [i \in DOMAIN setup.recommendations |-> setup.recommendations[i].rule]
         = <<"LOW RAM", "HDD DETECTED", "LOW DISK SPACE", "LOW CPU COUNT",
             "WINDOWS ANTIVIRUS", "WINDOWS LONG PATHS", "CLOUD-FIRST">>

\* C25: every step of setup_project keeps the phase order: the snapshot is
\* taken first, constraints are derived from an existing snapshot before
\* validation, recommendations follow the validation report, the configuration
\* is written only after all of them (whatever the overall flag says), the
\* report is returned only after the configuration was written, and a run that
\* raised has persisted nothing, returns no report and does nothing more.
C25_PhasesInOrder ==
    [][/\ system_profile' # system_profile =>
            (system_profile = None /\ constraints[Runner] = None)
       /\ constraints' # constraints =>
            (system_profile # None /\ setup.validation = None)
       /\ setup'.validation # setup.validation =>
            (constraints[Runner] # None /\ setup.recommendations = <<>>)
       /\ setup'.recommendations # setup.recommendations =>
            (setup.validation # None /\ setup.config = None)
       /\ setup'.config # setup.config =>
            /\ system_profile # None
            /\ constraints[Runner] # None
            /\ setup.validation # None
            /\ setup.recommendations # <<>>
            /\ setup.report = None
            /\ setup'.config.system_profile = system_profile
            /\ setup'.config.resource_constraints = constraints[Runner]
       /\ setup'.report # setup.report => setup.config # None
       /\ setup'.status = "raised" => (setup'.config = None /\ setup'.report = None)
       /\ setup.status \in {"raised", "returned"} => setup' = setup]_vars

\* A run that returned its report after writing the configuration although
\* validation failed.
C25_Witness ==
    /\ setup.status = "returned"
    /\ setup.config # None
    /\ setup.report # None
    /\ ~setup.validation.overall

\* ============================================================= lock claims
\* Where a thread waits for the lock, and where it is inside a with-block.
AcquireLocations == {"acquire", "c_acquire", "s_acquire"}
InCriticalSection(t) == pc[t] \notin AcquireLocations \cup {"idle"}

\* C26: at most one thread is inside a with-block at any time and it is the
\* one holding the lock, which is free when no thread is inside; under fair
\* scheduling every call a thread has made returns.
C26_CallsComplete ==
    /\ [](/\ \A t, u \in Threads :
                (InCriticalSection(t) /\ InCriticalSection(u)) => t = u
          /\ \A t \in Threads : InCriticalSection(t) <=> lock = t)
    /\ \A t \in Threads : (pc[t] # "idle") ~> (pc[t] = "idle")

\* Two threads wait for the lock while the third is inside its with-block.
C26_Witness ==
    \E t \in Threads :
        /\ InCriticalSection(t)
        /\ lock = t
        /\ \A u \in Threads \ {t} : pc[u] \in AcquireLocations

\* ========================================================== record claims
\* The completion events an agent's record counts.
Counted(m) == m.tasks_completed + m.tasks_failed

\* C30: whenever no call is inside its with-block, each agent record counts at
\* least one completion event and exactly the events reported for its agent_id
\* since the last reset, by however many threads, and an agent with reported
\* events has a record; a record appears only in a completion call, for that
\* call's agent_id and with that call's agent_type; an existing record keeps
\* its agent_type whatever later events pass; and only reset removes records.
C30_RecordsFromCompletions ==
    /\ [](lock = Free =>
             \A a \in AgentIds :
                 IF a \in DOMAIN agent_metrics
                 THEN /\ Counted(agent_metrics[a]) >= 1
                      /\ Counted(agent_metrics[a]) = events[a].count
                 ELSE events[a].count = 0)
    /\ [][\A a \in AgentIds :
              /\ (a \notin DOMAIN agent_metrics /\ a \in DOMAIN agent_metrics') =>
                     IF pc' # pc
                     THEN /\ \E t \in Threads : pc[t] = "c_create"
                          /\ a = "a1"
                          /\ agent_metrics'[a].agent_type = "coder"
                     ELSE /\ call'.op = "record_agent_task_completion"
                          /\ call'.agent_id = a
                          /\ agent_metrics'[a].agent_type = call'.agent_type
              /\ (a \in DOMAIN agent_metrics /\ a \in DOMAIN agent_metrics') =>
                     agent_metrics'[a].agent_type = agent_metrics[a].agent_type
              /\ (a \in DOMAIN agent_metrics /\ a \notin DOMAIN agent_metrics') =>
                     call'.op = "reset"]_vars

\* Both threads reported their first completion of "a1", and then a whole
\* call reported a failure of "a1" as a reviewer.  The one record is a coder's and counts all
\* three events.
C30_Witness ==
    /\ lock = Free
    /\ \A t \in FirstReporters : calls_made[t] = 1 /\ pc[t] = "idle"
    /\ call.op = "record_agent_task_completion"
    /\ call.agent_id = "a1"
    /\ call.agent_type = "reviewer"
    /\ DOMAIN agent_metrics = {"a1"}
    /\ agent_metrics["a1"].agent_type = "coder"
    /\ agent_metrics["a1"].tasks_completed = 2
    /\ agent_metrics["a1"].tasks_failed = 1
    /\ events["a1"].count = 3

====
